---------------------------- MODULE Spec2Model ----------------------------
(***************************************************************************)
(* WeaR-emu: guest execution substrate.                                    *)
(*                                                                         *)
(* Part 1  64-bit values, guest memory (WeaR_Memory)                       *)
(* Part 2  CPU interpreter (WeaR_Cpu) and syscall dispatcher               *)
(* Part 3  Emulator core (WeaR_EmulatorCore) and its CPU thread            *)
(* Part 4  WeaR_System and WeaR_Cpu::runLoop                               *)
(* Part 5  Virtual file system (WeaR_VFS)                                  *)
(*         render queue and PM4 parser, memory accesses                    *)
(* Part 6  Specifications                                                  *)
(* Part 7  Properties                                                      *)
(***************************************************************************)
EXTENDS Integers, Sequences, FiniteSets, TLC

(***************************************************************************)
(* Part 1.  A uint64_t is a tuple of three limbs, least significant first: *)
(* bits 0..23, bits 24..47 and bits 48..63.  All arithmetic is modulo      *)
(* 2^64.  Guest memory holds bytes; a value lies in it little-endian.      *)
(***************************************************************************)
Byte == 0..255

\* 2^24 and 2^16, the limb sizes
LIMB == 4096 * 4096
TOPLIMB == 256 * 256

\* the uint64_t whose value is n, for 0 <= n < 2^31
U64Of(n) == << n % LIMB, n \div LIMB, 0 >>

Zero64 == U64Of(0)

\* a + b on uint64_t
Add64(a, b) ==
    LET s1 == a[1] + b[1]
        s2 == a[2] + b[2] + (s1 \div LIMB)
        s3 == a[3] + b[3] + (s2 \div LIMB)
    IN  << s1 % LIMB, s2 % LIMB, s3 % TOPLIMB >>

\* a - b on uint64_t
Sub64(a, b) ==
    Add64(Add64(a, << LIMB - 1 - b[1], LIMB - 1 - b[2], TOPLIMB - 1 - b[3] >>),
          U64Of(1))

\* a < b on uint64_t
LT64(a, b) ==
    \/ a[3] < b[3]
    \/ a[3] = b[3] /\ a[2] < b[2]
    \/ a[3] = b[3] /\ a[2] = b[2] /\ a[1] < b[1]

\* the uint64_t stored as the 8 bytes d, and the 8 bytes of the uint64_t v
FromBytes(d) ==
    << d[1] + 256 * d[2] + 65536 * d[3],
       d[4] + 256 * d[5] + 65536 * d[6],
       d[7] + 256 * d[8] >>
ToBytes(v) ==
    << v[1] % 256, (v[1] \div 256) % 256, v[1] \div 65536,
       v[2] % 256, (v[2] \div 256) % 256, v[2] \div 65536,
       v[3] % 256, v[3] \div 256 >>

\* static_cast<int64_t>(static_cast<int32_t>(d)) for the 4 bytes d
SignExtend32(d) ==
    LET f == IF d[4] >= 128 THEN 255 ELSE 0
    IN  FromBytes(<< d[1], d[2], d[3], d[4], f, f, f, f >>)

\* zero extension of the 4 bytes d
ZeroExtend32(d) == FromBytes(<< d[1], d[2], d[3], d[4], 0, 0, 0, 0 >>)

\* PS4Memory::MEMORY_SIZE = 8 GiB = 2^33
MEMORY_SIZE == << 0, 512, 0 >>

\* PS4Memory::Region::USER_BASE = 0x400000
USER_BASE == << 4194304, 0, 0 >>

\* PS4Memory::Region::STACK_TOP - 0x1000 = 0x00007FFFFFFFE000
STACK_TOP_m1000 == << 16769024, 8388607, 0 >>

\* x & PS4Memory::PHYSICAL_MASK  (PHYSICAL_MASK = 2^33 - 1)
MaskPhysical(x) == << x[1], x[2] % 512, 0 >>

translateAddress(virtualAddress) ==
    IF ~LT64(virtualAddress, USER_BASE)
    THEN MaskPhysical(Sub64(virtualAddress, USER_BASE))
    ELSE MaskPhysical(virtualAddress)

\* validateAccess passes (no MemoryAccessException) for size bytes at
\* physicalAddr; the arena pointer is non-null while the memory object lives
validateAccessOk(physicalAddr, size) ==
    ~LT64(MEMORY_SIZE, Add64(physicalAddr, U64Of(size)))

\* The arena is a function from the offsets written so far to bytes; the
\* pages come from the OS zero-filled.
ArenaByte(arena, p) == IF p \in DOMAIN arena THEN arena[p] ELSE 0

\* read<T>(virtualAddress) with sizeof(T) = n passes validateAccess
MemReadOk(va, n) == validateAccessOk(translateAddress(va), n)

\* the n bytes read<T> or readBlock copies out
MemRead(arena, va, n) ==
    LET p == translateAddress(va)
    IN  [i \in 1..n |-> ArenaByte(arena, Add64(p, U64Of(i - 1)))]

\* the arena after write<T> or writeBlock copies the bytes bs in
MemWrite(arena, va, bs) ==
    LET p   == translateAddress(va)
        new == { Add64(p, U64Of(i - 1)) : i \in 1..Len(bs) }
    IN  [q \in (DOMAIN arena) \cup new |->
            IF q \in new THEN bs[Sub64(q, p)[1] + 1] ELSE arena[q]]

(***************************************************************************)
(* Part 2.  CPU context, syscall dispatcher, WeaR_Cpu::step.               *)
(***************************************************************************)

\* Positions of the named registers in WeaR_Context::GPR: the anonymous
\* struct of the union lists RAX, RBX, RCX, RDX, RSI, RDI, RBP, RSP, R8..R15
RAX == 0
RBX == 1
RCX == 2
RDX == 3
RSI == 4
RDI == 5
RBP == 6
RSP == 7
R8  == 8
R9  == 9
R10 == 10

\* RFLAGS after reset: IF set, reserved bit 1 set
RFLAGS_RESET == 514

\* WeaR_Context::reset
ContextReset ==
    [GPR |-> [r \in 0..15 |-> Zero64], RIP |-> Zero64, RFLAGS |-> RFLAGS_RESET]

SYS_exit == 1
SYS_write == 4
SYS_getpid == 20
SYS_getuid == 24
SYS_mmap == 477
SYS_sceGnmSubmitCommandBuffers == 591
SYS_sceKernelLoadStartModule == 594
SYS_sceKernelDebugOut == 602
SYS_sceGnmSubmitDone == 614
SYS_sceKernelIsNeoMode == 618
SYS_sceKernelGetCpuTemperature == 621
SYS_sceGnmGetGpuCoreClockFrequency == 626

\* the keys of m_handlers after registerDefaultHandlers
HandlerNumbers ==
    { SYS_exit, SYS_write, SYS_mmap, SYS_getpid, SYS_getuid,
      SYS_sceKernelDebugOut, SYS_sceKernelIsNeoMode,
      SYS_sceKernelGetCpuTemperature, SYS_sceKernelLoadStartModule,
      SYS_sceGnmSubmitCommandBuffers, SYS_sceGnmSubmitDone,
      SYS_sceGnmGetGpuCoreClockFrequency }

\* PS4Memory::Region::HEAP_BASE = 0x200000000, first value of the mmap
\* handler's static nextAlloc
HEAP_BASE == << 0, 512, 0 >>

\* first value of the LoadStartModule handler's static nextModuleId
FIRST_MODULE_ID == 100

\* A line of the kernel log.
LogLine(tag, num, text) == [tag |-> tag, num |-> num, text |-> text]

\* the smaller of the uint64_t count and the loop limit cap (cap < 65536)
CountLimit(count, cap) ==
    IF ~LT64(count, U64Of(cap)) THEN cap ELSE count[1]

RECURSIVE ReadCStr(_, _, _)
\* the handlers' string loop: bytes from va up to the first NUL, at most
\* limit of them (read<uint8_t> cannot go out of bounds after translation)
ReadCStr(arena, va, limit) ==
    IF limit = 0 THEN << >>
    ELSE LET c == MemRead(arena, va, 1)[1]
         IN  IF c = 0 THEN << >>
             ELSE << c >> \o ReadCStr(arena, Add64(va, U64Of(1)), limit - 1)

\* std::map::operator[] assignment; a map with no entry is << >>
MapPut(f, k, v) == [x \in (DOMAIN f) \cup {k} |-> IF x = k THEN v ELSE f[x]]

\* a counter kept for telemetry, held at the model's bound once it gets there
MaxCount == 2
Bump(n) == IF n < MaxCount THEN n + 1 ELSE n

\* (length + 0xFFF) & ~0xFFFULL
PageAlign(length) ==
    LET s == Add64(length, U64Of(4095))
    IN  << s[1] - (s[1] % 4096), s[2], s[3] >>

\* The dispatcher state threaded through a step.
\*   d = [m_totalCalls, m_unimplementedCalls, kernelLog, nextAlloc, nextModuleId,
\*        unimplementedLines]
\* kernelLog is the set of the lines logged; unimplementedLines counts, for
\* each number, the "Unimplemented syscall" lines logged (saturating).
\* WeaR_Syscalls::dispatch with the handlers of registerDefaultHandlers.
\* Result: [ctx, arena, d, threw]; threw = an exception left the handler.
dispatch(ctx, arena, d0) ==
    LET d    == [d0 EXCEPT !.m_totalCalls = Bump(@)]
        num  == ctx.GPR[RAX]
        rdi  == ctx.GPR[RDI]
        rsi  == ctx.GPR[RSI]
        rdx  == ctx.GPR[RDX]
        Is(n) == num = U64Of(n)
        Ret(v, dd, ar) ==
            [ctx |-> [ctx EXCEPT !.GPR[RAX] = v], arena |-> ar, d |-> dd,
             threw |-> FALSE]
        Log(dd, l) == [dd EXCEPT !.kernelLog = @ \cup {l}]
    IN  CASE Is(SYS_exit) ->
               Ret(Zero64, Log(d, LogLine("sys_exit", rdi, << >>)), arena)
          [] Is(SYS_write) ->
               LET output == ReadCStr(arena, rsi, CountLimit(rdx, 4096))
                   dd == IF rdi = U64Of(1) \/ rdi = U64Of(2)
                         THEN Log(d, LogLine("fd", rdi, output)) ELSE d
               IN  Ret(U64Of(Len(output)), dd, arena)
          [] Is(SYS_mmap) ->
               LET allocAddr == IF rdi # Zero64 THEN rdi ELSE d.nextAlloc
                   dd == [d EXCEPT !.nextAlloc = Add64(@, PageAlign(rsi))]
               IN  Ret(allocAddr, Log(dd, LogLine("sys_mmap", allocAddr, << >>)),
                       arena)
          [] Is(SYS_getpid) -> Ret(U64Of(1000), d, arena)
          [] Is(SYS_getuid) -> Ret(Zero64, d, arena)
          [] Is(SYS_sceKernelDebugOut) ->
               Ret(Zero64,
                   Log(d, LogLine("DEBUG", Zero64, ReadCStr(arena, rdi, 1024))),
                   arena)
          [] Is(SYS_sceKernelIsNeoMode) -> Ret(U64Of(1), d, arena)
          [] Is(SYS_sceKernelGetCpuTemperature) ->
               IF rdi = Zero64 THEN Ret(Zero64, d, arena)
               ELSE IF MemReadOk(rdi, 4)
                    THEN Ret(Zero64, d, MemWrite(arena, rdi, << 45, 0, 0, 0 >>))
                    ELSE [ctx |-> ctx, arena |-> arena, d |-> d, threw |-> TRUE]
          [] Is(SYS_sceKernelLoadStartModule) ->
               LET dd == [d EXCEPT !.nextModuleId = @ + 1]
               IN  Ret(U64Of(d.nextModuleId),
                       Log(dd, LogLine("LoadStartModule", Zero64,
                                       ReadCStr(arena, rdi, 256))), arena)
          [] Is(SYS_sceGnmSubmitCommandBuffers) /\ rdi[1] = 0
                                                /\ rdi[2] % 256 = 0 ->
               \* static_cast<uint32_t>(count) = 0: the loop of
               \* handleSubmitCommandBuffers is not entered
               Ret(Zero64,
                   Log(d, LogLine("sceGnmSubmitCommandBuffers", rdi, << >>)),
                   arena)
          [] Is(SYS_sceGnmSubmitCommandBuffers)
                /\ (~MemReadOk(rsi, 8) \/ ~MemReadOk(rdx, 4)) ->
               \* mem.read of the first buffer address or size throws
               [ctx |-> ctx, arena |-> arena,
                d |-> Log(d, LogLine("sceGnmSubmitCommandBuffers", rdi,
                                     << >>)),
                threw |-> TRUE]
          [] Is(SYS_sceGnmSubmitDone) ->
               Ret(Zero64, Log(d, LogLine("sceGnmSubmitDone", Zero64, << >>)),
                   arena)
          [] Is(SYS_sceGnmGetGpuCoreClockFrequency) -> Ret(U64Of(911), d, arena)
          [] \A n \in HandlerNumbers : ~Is(n) ->
               \* no handler: counted, logged, RAX = 0
               Ret(Zero64,
                   Log([d EXCEPT !.m_unimplementedCalls = Bump(@),
                                 !.unimplementedLines =
                                    MapPut(@, num,
                                           Bump(IF num \in DOMAIN @
                                                THEN @[num] ELSE 0))],
                       LogLine("Unimplemented syscall", num, << >>)),
                   arena)

\* WeaR_Cpu::step.  Result: [ctx, arena, d, cycles, state] where state is
\* the value stored to m_state by the step, or "same" when nothing is stored.
step(c, arena, d) ==
    LET one  == U64Of(1)
        op1  == MemRead(arena, c.RIP, 1)[1]
        rip1 == Add64(c.RIP, one)
        hasREX == op1 \div 16 = 4
        rex  == IF hasREX THEN op1 ELSE 0
        opcode == IF hasREX THEN MemRead(arena, rip1, 1)[1] ELSE op1
        rip  == IF hasREX THEN Add64(rip1, one) ELSE rip1
        c1   == [c EXCEPT !.RIP = rip]
        Done(cc, ar) ==
            [ctx |-> cc, arena |-> ar, d |-> d, cycles |-> 1, state |-> "same"]
        Fault(cc, ar) ==
            [ctx |-> cc, arena |-> ar, d |-> d, cycles |-> 0,
             state |-> "Faulted"]
        rsp  == c1.GPR[RSP]
        rspDown == Sub64(rsp, U64Of(8))
        rspUp   == Add64(rsp, U64Of(8))
    IN  CASE opcode = 144 -> Done(c1, arena)                        \* NOP
          [] opcode = 195 ->                                         \* RET
               IF ~MemReadOk(rsp, 8) THEN Fault(c1, arena)
               ELSE Done([c1 EXCEPT !.GPR[RSP] = rspUp,
                                    !.RIP = FromBytes(MemRead(arena, rsp, 8))], arena)
          [] opcode = 233 ->                                         \* JMP rel32
               IF ~MemReadOk(rip, 4) THEN Fault(c1, arena)
               ELSE Done([c1 EXCEPT !.RIP =
                            Add64(Add64(rip, U64Of(4)),
                                  SignExtend32(MemRead(arena, rip, 4)))], arena)
          [] opcode = 232 ->                                         \* CALL rel32
               IF ~MemReadOk(rip, 4) THEN Fault(c1, arena)
               ELSE LET ret == Add64(rip, U64Of(4))
                        c2  == [c1 EXCEPT !.RIP = ret, !.GPR[RSP] = rspDown]
                    IN  IF ~MemReadOk(rspDown, 8) THEN Fault(c2, arena)
                        ELSE Done([c2 EXCEPT !.RIP =
                                     Add64(ret, SignExtend32(MemRead(arena, rip, 4)))],
                                  MemWrite(arena, rspDown, ToBytes(ret)))
          [] opcode = 244 ->                                         \* HLT
               [ctx |-> c1, arena |-> arena, d |-> d, cycles |-> 0,
                state |-> "Halted"]
          [] opcode \in 80..87 ->                                    \* PUSH reg
               LET c2 == [c1 EXCEPT !.GPR[RSP] = rspDown]
               IN  IF ~MemReadOk(rspDown, 8) THEN Fault(c2, arena)
                   ELSE Done(c2, MemWrite(arena, rspDown, ToBytes(c2.GPR[opcode - 80])))
          [] opcode \in 88..95 ->                                    \* POP reg
               IF ~MemReadOk(rsp, 8) THEN Fault(c1, arena)
               ELSE LET c2 == [c1 EXCEPT !.GPR[opcode - 88] = FromBytes(MemRead(arena, rsp, 8))]
                    IN  Done([c2 EXCEPT !.GPR[RSP] = Add64(@, U64Of(8))], arena)
          [] opcode \in 184..191 ->                                  \* MOV reg, imm
               IF hasREX /\ (rex \div 8) % 2 = 1
               THEN IF ~MemReadOk(rip, 8) THEN Fault(c1, arena)
                    ELSE Done([c1 EXCEPT
                                 !.GPR[opcode - 184 + (IF rex % 2 = 1 THEN 8 ELSE 0)]
                                     = FromBytes(MemRead(arena, rip, 8)),
                                 !.RIP = Add64(rip, U64Of(8))], arena)
               ELSE IF ~MemReadOk(rip, 4) THEN Fault(c1, arena)
                    ELSE Done([c1 EXCEPT
                                 !.GPR[opcode - 184] = ZeroExtend32(MemRead(arena, rip, 4)),
                                 !.RIP = Add64(rip, U64Of(4))], arena)
          [] opcode = 15 ->                                          \* 0F xx
               LET opcode2 == MemRead(arena, rip, 1)[1]
                   c2 == [c1 EXCEPT !.RIP = Add64(rip, one)]
               IN  IF opcode2 = 5
                   THEN LET r == dispatch(c2, arena, d)                \* SYSCALL
                        IN  IF r.threw
                            THEN [ctx |-> r.ctx, arena |-> r.arena, d |-> r.d,
                                  cycles |-> 0, state |-> "Faulted"]
                            ELSE [ctx |-> r.ctx, arena |-> r.arena, d |-> r.d,
                                  cycles |-> 1, state |-> "same"]
                   ELSE Done(c2, arena)                                \* execUnknown
          [] OTHER -> Done(c1, arena)                                \* execUnknown

(***************************************************************************)
(* Part 5a.  Paths.  A guest path is a string: a sequence of symbols, each *)
(* a character except ".." which is kept as one symbol.  A host path       *)
(* (std::filesystem::path) is the sequence of its elements as path         *)
(* iteration yields them: the root directory, then the file names, with an *)
(* empty last element for a trailing separator.  The host file system has  *)
(* no symbolic links, so canonicalisation is lexical.                      *)
(***************************************************************************)
SLASH == "/"
BACKSLASH == "\\"
DOTDOT == ".."

RECURSIVE StripTrailingSlashes(_)
StripTrailingSlashes(s) ==
    IF s # << >> /\ s[Len(s)] = SLASH
    THEN StripTrailingSlashes(SubSeq(s, 1, Len(s) - 1)) ELSE s

\* WeaR_VFS::normalizePath
normalizePath(path) ==
    LET replaced == [i \in 1..Len(path) |->
                        IF path[i] = BACKSLASH THEN SLASH ELSE path[i]]
        result   == StripTrailingSlashes(replaced)
    IN  IF result = << >> \/ result[1] # SLASH THEN << SLASH >> \o result
        ELSE result

\* str.find(prefix) == 0
StartsWith(str, prefix) ==
    Len(prefix) <= Len(str) /\ SubSeq(str, 1, Len(prefix)) = prefix

RootDir == << SLASH >>

RECURSIVE SplitNames(_, _)
\* the file names of a string, separators collapsed; cur is the name being
\* read.  A trailing separator yields an empty last name.
SplitNames(s, cur) ==
    IF s = << >> THEN << cur >>
    ELSE IF Head(s) = SLASH
         THEN IF cur = << >> THEN SplitNames(Tail(s), << >>)
              ELSE << cur >> \o SplitNames(Tail(s), << >>)
         ELSE SplitNames(Tail(s), Append(cur, Head(s)))

\* std::filesystem::path(s) as its elements; the empty string is the empty path
PathOf(s) ==
    IF s = << >> THEN << >>
    ELSE IF Head(s) = SLASH
         THEN LET names == SplitNames(s, << >>)
              IN  << RootDir >> \o (IF names = << << >> >> THEN << >> ELSE names)
         ELSE SplitNames(s, << >>)

\* operator/ : host / relative
PathAppend(host, rel) ==
    IF rel # << >> /\ Head(rel) = SLASH THEN PathOf(rel)
    ELSE IF rel = << >> THEN Append(host, << >>)
         ELSE host \o SplitNames(rel, << >>)

RECURSIVE CanonFrom(_, _)
CanonFrom(done, rest) ==
    IF rest = << >> THEN done
    ELSE LET e == Head(rest)
         IN  IF e = << >> THEN CanonFrom(done, Tail(rest))
             ELSE IF e = << DOTDOT >>
                  THEN CanonFrom(IF Len(done) > 1
                                 THEN SubSeq(done, 1, Len(done) - 1) ELSE done,
                                 Tail(rest))
                  ELSE CanonFrom(Append(done, e), Tail(rest))

\* std::filesystem::weakly_canonical of an absolute host path
weakly_canonical(path) == CanonFrom(<< RootDir >>, Tail(path))

\* std::mismatch(host.begin(), host.end(), p.begin(), p.end()).first == host.end()
ElementsPrefix(host, p) ==
    Len(host) <= Len(p) /\ \A i \in 1..Len(host) : host[i] = p[i]

\* WeaR_VFS::isPathSafe: mounts maps a mount point to its canonical host root
isPathSafe(path, mounts) ==
    \E mount \in DOMAIN mounts :
        ElementsPrefix(mounts[mount], weakly_canonical(path))

\* the mount resolvePath selects: the longest mount point that is a string
\* prefix of the normalized path; << >> when there is none
bestMatch(normalized, mounts) ==
    LET cands == { m \in DOMAIN mounts : StartsWith(normalized, m) }
    IN  IF cands = {} THEN << >>
        ELSE CHOOSE m \in cands : \A o \in cands : Len(o) <= Len(m)

\* the host path resolvePath builds before the safety check
resolvedPath(ps4Path, mounts) ==
    LET normalized == normalizePath(ps4Path)
        best == bestMatch(normalized, mounts)
        rel0 == SubSeq(normalized, Len(best) + 1, Len(normalized))
        relativePath == IF rel0 # << >> /\ Head(rel0) = SLASH
                        THEN Tail(rel0) ELSE rel0
    IN  PathAppend(mounts[best], relativePath)

\* WeaR_VFS::resolvePath; the empty path is << >>
resolvePath(ps4Path, mounts) ==
    IF bestMatch(normalizePath(ps4Path), mounts) = << >> THEN << >>
    ELSE IF ~isPathSafe(resolvedPath(ps4Path, mounts), mounts) THEN << >>
         ELSE resolvedPath(ps4Path, mounts)



(***************************************************************************)
(* Part 3.  Emulator core (WeaR_EmulatorCore) and its CPU thread.          *)
(***************************************************************************)
VARIABLES
    core_m_state,        \* WeaR_EmulatorCore::m_state
    m_initialized, m_gameLoaded, m_gamePath, m_entryPoint,
    m_cpuRunning,        \* WeaR_EmulatorCore::m_cpuRunning
    threadPc,            \* position of the CPU thread, "none" before a spawn
    uiPc,                \* position of the controlling thread
    uiCont,              \* the call a blocked stop() returns into
    lastCall,            \* the call the latest step returned from, if any
    crashed,             \* the process died (null or dangling dereference)
    cpuAlive,            \* m_cpu and m_memory hold objects
    cpu_m_state,         \* WeaR_Cpu::m_state
    m_shouldStop, m_instructionCount, m_context, arena,
    syscalls,            \* dispatcher counters, log and handler statics
    pad,                 \* WeaR_InputManager::m_state
    audio_initialized,   \* WeaR_AudioManager::m_initialized
    m_mountPoints,       \* WeaR_VFS::m_mountPoints
    m_openFiles, m_nextFd, vfsMutex, lastVfs, closedFds, hostFiles,
    resolveIn, resolveOut,
    sys_m_state,         \* WeaR_System::m_state
    sys_m_entryPoint,    \* WeaR_System::m_entryPoint
    stopRequested,       \* history: WeaR_Cpu::stop() ran for the live thread
    stepsSincePause      \* history: steps taken since pause() returned true,
                         \* counted up to 2

VARIABLES
    rq_m_queue,          \* WeaR_RenderQueue::m_queue
    m_frameCount,        \* WeaR_RenderQueue::m_frameCount
    producerPc,          \* the pushing thread: "idle", or "notify" between
                         \* the unlock of a push and its notify_one
    endFramePending,     \* the push in flight is the one of endFrame()
    consumerPc,          \* the render thread: "idle" or "waiting"
    notified,            \* a notify_one has reached the blocked waiter
    gnmStack,            \* activations of processCommandBuffer, innermost
                         \* last: [bufferAddr, sizeInDwords, offset, pending]
    gnm_m_state,         \* WeaR_GnmDriver::m_state (the fields the parser uses)
    lastGfx,             \* the latest graphics call that came back
    pushedLog,           \* history: every command pushed, in push order
    poppedLog,           \* history: the popAll results, concatenated
    sinceEndFrame,       \* history: [started, returned, disturbed] of the
                         \* latest endFrame() not yet followed by a popAll
    queueCleared,        \* history: clear() has dropped commands
    gnmStats,            \* m_packetsProcessed, m_drawCallsQueued (saturating)
    memReq,              \* the memory access asked for: [va, n]
    memOut,              \* what the access did
    arenaBytes           \* how many bytes the arena pointer m_memory covers

VARIABLES
    m_entries,           \* WeaR_PkgLoader::m_entries of the loaded package
    fileSize,            \* std::filesystem::file_size(m_pkgPath)
    extracted            \* what extractEboot() returned last

VARIABLES
    elfPhdr,             \* the Elf64::Phdr the PT_LOAD loop of loadElf is at
    elfSize,             \* loadElf: fileSize, the length of fileData
    segOut               \* what the loop body did with that header

VARIABLES
    inStep,              \* the CPU thread is inside WeaR_Cpu::step
    cpuSnapshot          \* what getCpuSnapshot() returned to the UI thread

VARIABLES
    audioMutex,          \* WeaR_AudioManager::m_mutex
    audio_m_ports,       \* WeaR_AudioManager::m_ports: handle -> sampleCount
    audio_m_nextHandle,  \* WeaR_AudioManager::m_nextHandle
    lastAudio            \* the latest audio manager call that came back

coreVars  == << core_m_state, m_initialized, m_gameLoaded, m_gamePath,
                m_entryPoint, m_cpuRunning >>
cpuVars   == << cpuAlive, cpu_m_state, m_shouldStop, m_instructionCount,
                m_context, arena, syscalls >>
histVars  == << stepsSincePause >>
vfsVars   == << m_openFiles, m_nextFd, vfsMutex, lastVfs, closedFds, hostFiles,
                resolveIn, resolveOut >>
sysVars   == << sys_m_state, sys_m_entryPoint, stopRequested >>
gfxVars   == << rq_m_queue, m_frameCount, producerPc, endFramePending,
                consumerPc, notified, gnmStack, gnm_m_state, lastGfx,
                pushedLog, poppedLog, sinceEndFrame, queueCleared,
                gnmStats >>
memVars   == << memReq, memOut, arenaBytes >>
pkgVars   == << m_entries, fileSize, extracted >>
ldrVars   == << elfPhdr, elfSize, segOut >>
snapVars  == << inStep, cpuSnapshot >>
audVars   == << audioMutex, audio_m_ports, audio_m_nextHandle, lastAudio >>

\* InternalBios::BIOS_ENTRY_POINT = USER_BASE, the string 0x200 above it
BIOS_ENTRY_POINT == USER_BASE
BIOS_STRING == << 4194816, 0, 0 >>

\* the bytes InternalBios::load generates for its code
BiosCode ==
    << 72, 199, 192, 4, 0, 0, 0,           72, 199, 199, 1, 0, 0, 0,
       72, 190, 0, 2, 64, 0, 0, 0, 0, 0,   72, 199, 194, 28, 0, 0, 0,
       15, 5,
       72, 199, 192, 239, 1, 0, 0,         15, 5,
       72, 199, 192, 59, 2, 0, 0,          72, 199, 199, 0, 0, 0, 0,
       72, 190, 0, 3, 64, 0, 0, 0, 0, 0,   15, 5,
       243, 144,                           233, 223, 255, 255, 255 >>

\* "WeaR-emu Internal BIOS v1.0"
Banner ==
    << 87, 101, 97, 82, 45, 101, 109, 117, 32, 73, 110, 116, 101, 114, 110,
       97, 108, 32, 66, 73, 79, 83, 32, 118, 49, 46, 48 >>

\* BIOS_STRING as stored: the banner, a newline and the terminating NUL
BiosString == Banner \o << 10, 0 >>

\* InternalBios::load: [arena, ctx, entry]
InternalBiosLoad(ar, ctx) ==
    LET cleared == [r \in 0..15 |->
                      IF r \in {RSP, RBP} THEN STACK_TOP_m1000 ELSE Zero64]
    IN  [arena |-> MemWrite(MemWrite(ar, BIOS_STRING, BiosString),
                            BIOS_ENTRY_POINT, BiosCode),
         ctx   |-> [GPR |-> cleared, RIP |-> BIOS_ENTRY_POINT,
                    RFLAGS |-> RFLAGS_RESET],
         entry |-> BIOS_ENTRY_POINT]

\* The host file system the core sees: two directories, one of them with
\* two executables; a third path names nothing.
HostRootA == << RootDir, << "a" >> >>
HostRootO == << RootDir, << "o" >> >>
HostDirs  == { << RootDir >>, HostRootA, HostRootO }

\* hlt ; jmp -6
HaltImage  == << 244, 233, 250, 255, 255, 255 >>
\* mov rsp-slot, 0x2003FFFFC ; ret ; jmp -6   (the ret reads past the arena)
FaultImage == << 72, 191, 252, 255, 63, 0, 2, 0, 0, 0, 195,
                 233, 250, 255, 255, 255 >>

HaltGame  == [name |-> "halt.elf", dir |-> HostRootA, exists |-> TRUE,
              e_entry |-> USER_BASE,
              segments |-> << [p_vaddr |-> USER_BASE, p_memsz |-> 6,
                               data |-> HaltImage] >>]
FaultGame == [name |-> "fault.elf", dir |-> HostRootA, exists |-> TRUE,
              e_entry |-> USER_BASE,
              segments |-> << [p_vaddr |-> USER_BASE, p_memsz |-> 16,
                               data |-> FaultImage] >>]
MissingGame == [name |-> "missing.elf", dir |-> << RootDir, << "g" >> >>,
                exists |-> FALSE, e_entry |-> Zero64, segments |-> << >>]
\* a PT_LOAD segment 4 bytes before the end of the arena whose p_filesz (6)
\* is larger than its p_memsz (2)
OverrunGame == [name |-> "overrun.elf", dir |-> HostRootA, exists |-> TRUE,
                e_entry |-> USER_BASE,
                segments |-> << [p_vaddr |-> Add64(USER_BASE,
                                                   << LIMB - 4, 511, 0 >>),
                                 p_memsz |-> 2, data |-> HaltImage] >>]
GameFiles == { HaltGame, FaultGame, MissingGame }
\* the files of the loading specification: a malformed one among them
LoadFiles == GameFiles \cup { OverrunGame }

\* WeaR_Memory::isValidAddress
isValidAddress(virtualAddress, size) ==
    validateAccessOk(translateAddress(virtualAddress), size)

\* WeaR_ElfLoader::loadSegment throws: validateAccess raises
\* MemoryAccessException in writeBlock, or in zero for the BSS
loadSegmentThrows(phdr) ==
    LET p_filesz == Len(phdr.data)
    IN  \/ p_filesz > 0 /\ ~MemReadOk(phdr.p_vaddr, p_filesz)
        \/ /\ phdr.p_memsz > p_filesz
           /\ ~MemReadOk(Add64(phdr.p_vaddr, U64Of(p_filesz)),
                         phdr.p_memsz - p_filesz)

\* WeaR_ElfLoader::loadSegment: the arena it leaves, also when it throws
loadSegment(phdr, ar) ==
    LET p_filesz == Len(phdr.data)
        bssStart == Add64(phdr.p_vaddr, U64Of(p_filesz))
        bssSize  == phdr.p_memsz - p_filesz
    IN  IF p_filesz > 0 /\ ~MemReadOk(phdr.p_vaddr, p_filesz) THEN ar
        ELSE IF phdr.p_memsz <= p_filesz \/ ~MemReadOk(bssStart, bssSize)
        THEN MemWrite(ar, phdr.p_vaddr, phdr.data)
        ELSE MemWrite(MemWrite(ar, phdr.p_vaddr, phdr.data), bssStart,
                      [i \in 1..bssSize |-> 0])

\* the PT_LOAD loop of loadElf passes the bounds check for this segment
segmentLoads(seg) == isValidAddress(seg.p_vaddr, seg.p_memsz)

RECURSIVE loadThrows(_)
\* an exception leaves the PT_LOAD loop of loadElf
loadThrows(segs) ==
    IF segs = << >> THEN FALSE
    ELSE IF ~segmentLoads(Head(segs)) THEN loadThrows(Tail(segs))
    ELSE loadSegmentThrows(Head(segs)) \/ loadThrows(Tail(segs))

RECURSIVE loadedSegments(_)
\* result.segments.size() at the end of the PT_LOAD loop
loadedSegments(segs) ==
    IF segs = << >> THEN 0
    ELSE (IF segmentLoads(Head(segs)) THEN 1 ELSE 0)
            + loadedSegments(Tail(segs))

RECURSIVE loadSegments(_, _)
\* the PT_LOAD loop of loadElf: the arena it leaves
loadSegments(segs, ar) ==
    IF segs = << >> THEN ar
    ELSE IF ~segmentLoads(Head(segs)) THEN loadSegments(Tail(segs), ar)
    ELSE IF loadSegmentThrows(Head(segs)) THEN loadSegment(Head(segs), ar)
    ELSE loadSegments(Tail(segs), loadSegment(Head(segs), ar))

\* WeaR_ElfLoader::loadElf on a well-formed file: [ok, arena, entryPoint,
\* threw]; threw = an exception left loadElf
loadElf(file, ar) ==
    IF ~file.exists
    THEN [ok |-> FALSE, arena |-> ar, entryPoint |-> Zero64, threw |-> FALSE]
    ELSE [ok |-> ~loadThrows(file.segments)
                    /\ loadedSegments(file.segments) > 0,
          arena |-> loadSegments(file.segments, ar),
          entryPoint |-> file.e_entry,
          threw |-> loadThrows(file.segments)]

APP0    == << "/", "a", "p", "p", "0" >>
HOSTAPP == << "/", "h", "o", "s", "t", "a", "p", "p" >>

\* WeaR_VFS::mount: the mount table afterwards
mount(mounts, virtualPath, host) ==
    IF host \notin HostDirs THEN mounts
    ELSE MapPut(mounts, normalizePath(virtualPath), weakly_canonical(host))

\* WeaR_ControllerState after reset()
PadReset == [buttons |-> {}, l2Analog |-> 0, r2Analog |-> 0]

Call(op, ret, val) == [op |-> op, ret |-> ret, val |-> val]

NoCall == Call("none", "void", Zero64)

\* the calls whose results the properties below look at; the others leave
\* no record
TracedOps == {"run", "stop", "loadInternalBios"}

\* an exception that leaves a call is recorded whatever the call
Returns(call) ==
    lastCall' = IF call.op \in TracedOps \/ call.ret = "throws" THEN call
                ELSE NoCall

UiReady == uiPc = "idle" /\ ~crashed


\* WeaR_Cpu::reset
CpuReset ==
    /\ m_context' = ContextReset
    /\ cpu_m_state' = "Stopped"
    /\ m_shouldStop' = FALSE
    /\ m_instructionCount' = 0

\* WeaR_EmulatorCore::initialize.  allocOk: the arena allocation succeeds;
\* when it fails the constructor's exception leaves initialize().
Initialize(allocOk) ==
    /\ UiReady
    /\ IF m_initialized
       THEN /\ Returns(Call("initialize", "true", Zero64))
            /\ UNCHANGED << coreVars, cpuVars, pad, audio_initialized >>
       ELSE IF ~allocOk
       THEN /\ core_m_state' = "Booting"
            /\ Returns(Call("initialize", "throws", Zero64))
            /\ UNCHANGED << m_initialized, m_gameLoaded, m_gamePath,
                            m_entryPoint, m_cpuRunning, cpuVars, pad,
                            audio_initialized >>
       ELSE /\ cpuAlive' = TRUE
            /\ arena' = << >>
            /\ CpuReset
            /\ audio_initialized' = TRUE
            /\ pad' = PadReset
            /\ m_initialized' = TRUE
            /\ core_m_state' = "Idle"
            /\ Returns(Call("initialize", "true", Zero64))
            /\ UNCHANGED << m_gameLoaded, m_gamePath, m_entryPoint,
                            m_cpuRunning, syscalls >>
    /\ UNCHANGED << threadPc, uiPc, uiCont, crashed, m_mountPoints, vfsVars, gfxVars, memVars, pkgVars, ldrVars, snapVars, audVars,
                    sysVars, histVars >>

\* stop() with no signal to the CPU thread
StopSignalMissing == UNCHANGED << core_m_state, m_cpuRunning >>

\* stop(): setState(EmuState::Stopping); m_cpuRunning = false
StopSignal ==
    /\ core_m_state' = "Stopping"
    /\ m_cpuRunning' = FALSE

\* the part of stop() before the join; continuation names the caller
StopBegin(continuation) ==
    /\ StopSignal
    /\ IF cpuAlive
       THEN /\ m_shouldStop' = TRUE
            /\ cpu_m_state' = "Stopped"
            /\ uiPc' = "stop_join"
            /\ uiCont' = continuation
            /\ UNCHANGED crashed
       ELSE /\ crashed' = TRUE
            /\ UNCHANGED << m_shouldStop, cpu_m_state, uiPc, uiCont >>
    /\ stepsSincePause' = 0
    /\ lastCall' = NoCall
    /\ UNCHANGED << m_initialized, m_gameLoaded, m_gamePath, m_entryPoint,
                    threadPc, cpuAlive, m_instructionCount, m_context, arena,
                    syscalls, pad, audio_initialized, m_mountPoints, vfsVars, gfxVars, memVars, pkgVars, ldrVars, snapVars, audVars,
                    sysVars >>

\* the part of shutdown() after stop(): audio, mounts, CPU and memory
\* released (~WeaR_Cpu calls stop(); the released objects are shown in
\* their reset form), flags cleared
ShutdownTail ==
    /\ audio_initialized' = FALSE
    /\ m_mountPoints' = << >>
    /\ cpuAlive' = FALSE
    /\ arena' = << >>
    /\ m_context' = ContextReset
    /\ m_instructionCount' = 0
    /\ m_shouldStop' = TRUE
    /\ cpu_m_state' = "Stopped"
    /\ m_initialized' = FALSE
    /\ m_gameLoaded' = FALSE
    /\ m_entryPoint' = Zero64
    /\ m_gamePath' = ""
    /\ core_m_state' = "Idle"

\* WeaR_EmulatorCore::stop
Stop ==
    /\ UiReady
    /\ IF core_m_state \in {"Idle", "Stopping"}
       THEN /\ Returns(Call("stop", "false", Zero64))
            /\ UNCHANGED << coreVars, threadPc, uiPc, uiCont, crashed, cpuVars,
                            pad, audio_initialized, m_mountPoints, vfsVars, gfxVars, memVars, pkgVars, ldrVars, snapVars, audVars,
                            sysVars, histVars >>
       ELSE StopBegin("stop")

\* WeaR_EmulatorCore::shutdown
Shutdown ==
    /\ UiReady
    /\ IF ~m_initialized
       THEN /\ Returns(Call("shutdown", "void", Zero64))
            /\ UNCHANGED << coreVars, threadPc, uiPc, uiCont, crashed, cpuVars,
                            pad, audio_initialized, m_mountPoints, vfsVars, gfxVars, memVars, pkgVars, ldrVars, snapVars, audVars,
                            sysVars, histVars >>
       ELSE IF core_m_state \in {"Idle", "Stopping"}
       THEN /\ ShutdownTail
            /\ Returns(Call("shutdown", "void", Zero64))
            /\ UNCHANGED << m_cpuRunning, threadPc, uiPc, uiCont, crashed,
                            syscalls, pad, vfsVars, gfxVars, memVars, pkgVars, ldrVars, snapVars, audVars, sysVars, histVars >>
       ELSE StopBegin("shutdown")

\* stop() from the join on: the join returns once the CPU thread has left
\* cpuThreadMain (or was never started); then the reset, and for a stop()
\* made by shutdown() the rest of shutdown()
StopJoin ==
    /\ uiPc = "stop_join"
    /\ ~crashed
    /\ threadPc \in {"none", "exited"}
    /\ threadPc' = "none"
    /\ pad' = PadReset
    /\ IF uiCont = "shutdown"
       THEN /\ ShutdownTail
            /\ Returns(Call("shutdown", "void", Zero64))
       ELSE /\ CpuReset
            /\ m_gameLoaded' = FALSE
            /\ m_entryPoint' = Zero64
            /\ m_gamePath' = ""
            /\ core_m_state' = "Idle"
            /\ Returns(Call("stop", "true", Zero64))
            /\ UNCHANGED << m_initialized, cpuAlive, audio_initialized,
                            m_mountPoints, arena >>
    /\ uiPc' = "idle"
    /\ uiCont' = "none"
    /\ UNCHANGED << m_cpuRunning, crashed, syscalls, vfsVars, gfxVars, memVars, pkgVars, ldrVars, snapVars, audVars, sysVars,
                    histVars >>

\* WeaR_EmulatorCore::loadGame
LoadGame(file) ==
    /\ UiReady
    /\ IF ~m_initialized \/ core_m_state # "Idle"
       THEN /\ Returns(Call("loadGame", "value", Zero64))
            /\ UNCHANGED << coreVars, m_context, arena, m_mountPoints >>
       ELSE \E result \in { loadElf(file, arena) } :
                /\ m_mountPoints' =
                       mount(mount(m_mountPoints, APP0, file.dir),
                             HOSTAPP, file.dir)
                /\ arena' = result.arena
                /\ IF result.threw
                   THEN \* nothing catches: the state stays Booting
                        /\ core_m_state' = "Booting"
                        /\ Returns(Call("loadGame", "throws", Zero64))
                        /\ UNCHANGED << m_initialized, m_gameLoaded,
                                        m_gamePath, m_entryPoint,
                                        m_cpuRunning, m_context >>
                   ELSE IF ~result.ok
                   THEN /\ Returns(Call("loadGame", "value", Zero64))
                        /\ UNCHANGED << coreVars, m_context >>
                   ELSE /\ m_entryPoint' = result.entryPoint
                        /\ m_gamePath' = file.name
                        /\ m_gameLoaded' = TRUE
                        /\ m_context' =
                               [m_context EXCEPT
                                   !.RIP = result.entryPoint,
                                   !.GPR[RSP] = STACK_TOP_m1000,
                                   !.GPR[RBP] = STACK_TOP_m1000]
                        /\ Returns(Call("loadGame", "value", result.entryPoint))
                        /\ UNCHANGED << core_m_state, m_initialized,
                                        m_cpuRunning >>
    /\ UNCHANGED << threadPc, uiPc, uiCont, crashed, cpuAlive, cpu_m_state,
                    m_shouldStop, m_instructionCount, syscalls, pad,
                    audio_initialized, vfsVars, gfxVars, memVars, pkgVars, ldrVars, snapVars, audVars, sysVars, histVars >>

\* WeaR_EmulatorCore::loadInternalBios
LoadInternalBios ==
    /\ UiReady
    /\ IF ~m_initialized
       THEN /\ Returns(Call("loadInternalBios", "value", Zero64))
            /\ UNCHANGED << coreVars, m_context, arena, stepsSincePause >>
       ELSE LET r == InternalBiosLoad(arena, m_context)
            IN  /\ arena' = r.arena
                /\ m_context' = r.ctx
                /\ m_entryPoint' = r.entry
                /\ m_gamePath' = "[Internal BIOS]"
                /\ m_gameLoaded' = TRUE
                /\ core_m_state' = "Idle"
                /\ stepsSincePause' = 0
                /\ Returns(Call("loadInternalBios", "value", r.entry))
                /\ UNCHANGED << m_initialized, m_cpuRunning >>
    /\ UNCHANGED << threadPc, uiPc, uiCont, crashed, cpuAlive, cpu_m_state,
                    m_shouldStop, m_instructionCount, syscalls, pad,
                    audio_initialized, m_mountPoints, vfsVars, gfxVars, memVars, pkgVars, ldrVars, snapVars, audVars, sysVars >>

\* run() without the test of m_gameLoaded
RunRefusesStateOnly == core_m_state \notin {"Idle", "Paused"}

\* the two early returns of run()
RunRefuses == core_m_state \notin {"Idle", "Paused"} \/ ~m_gameLoaded

\* WeaR_EmulatorCore::run
RunBody ==
    /\ IF RunRefuses
       THEN /\ Returns(Call("run", "false", Zero64))
            /\ UNCHANGED << core_m_state, m_cpuRunning, threadPc, cpu_m_state,
                            stepsSincePause >>
       ELSE /\ core_m_state' = "Running"
            /\ stepsSincePause' = 0
            /\ IF ~m_cpuRunning
               THEN \* a finished thread is joined, then the new one starts
                    /\ threadPc \in {"none", "exited"}
                    /\ m_cpuRunning' = TRUE
                    /\ threadPc' = "loop_test"
                    /\ UNCHANGED cpu_m_state
               ELSE \* WeaR_Cpu::resume
                    /\ cpu_m_state' = IF cpu_m_state = "Paused" THEN "Running"
                                      ELSE cpu_m_state
                    /\ UNCHANGED << m_cpuRunning, threadPc >>
            /\ Returns(Call("run", "true", Zero64))
    /\ UNCHANGED << m_initialized, m_gameLoaded, m_gamePath, m_entryPoint,
                    uiPc, uiCont, crashed, cpuAlive, m_shouldStop,
                    m_instructionCount, m_context, arena, syscalls, pad,
                    audio_initialized, m_mountPoints, vfsVars, gfxVars, memVars, pkgVars, ldrVars, snapVars, audVars, sysVars >>

\* WeaR_EmulatorCore::pause
PauseBody ==
    /\ IF core_m_state # "Running"
       THEN /\ Returns(Call("pause", "false", Zero64))
            /\ UNCHANGED << core_m_state, cpu_m_state >>
       ELSE \* WeaR_Cpu::pause
            /\ cpu_m_state' = IF cpu_m_state = "Running" THEN "Paused"
                              ELSE cpu_m_state
            /\ core_m_state' = "Paused"
            /\ Returns(Call("pause", "true", Zero64))
    /\ UNCHANGED << m_initialized, m_gameLoaded, m_gamePath, m_entryPoint,
                    m_cpuRunning, threadPc, uiPc, uiCont, crashed, cpuAlive,
                    m_shouldStop, m_instructionCount, m_context, arena,
                    syscalls, pad, audio_initialized, m_mountPoints, vfsVars, gfxVars, memVars, pkgVars, ldrVars, snapVars, audVars,
                    sysVars, histVars >>

Run == UiReady /\ RunBody

Pause == UiReady /\ PauseBody

\* WeaR_EmulatorCore::togglePause
TogglePause ==
    /\ UiReady
    /\ IF core_m_state = "Running" THEN PauseBody
       ELSE IF core_m_state = "Paused" THEN RunBody
       ELSE /\ Returns(Call("togglePause", "false", Zero64))
            /\ UNCHANGED << coreVars, threadPc, uiPc, uiCont, crashed, cpuVars,
                            pad, audio_initialized, m_mountPoints, vfsVars, gfxVars, memVars, pkgVars, ldrVars, snapVars, audVars,
                            sysVars, histVars >>

\* the mouse buttons tried: the one mapped to L2
Buttons == {1}

\* WeaR_InputManager::handleMouseButton
HandleMouseButton(button, pressed) ==
    /\ UiReady
    /\ pad' = IF button = 1
              THEN [pad EXCEPT !.l2Analog = IF pressed THEN 255 ELSE 0,
                               !.buttons = IF pressed THEN @ \cup {"L2"}
                                           ELSE @ \ {"L2"}]
              ELSE IF button = 2
              THEN [pad EXCEPT !.r2Analog = IF pressed THEN 255 ELSE 0,
                               !.buttons = IF pressed THEN @ \cup {"R2"}
                                           ELSE @ \ {"R2"}]
              ELSE pad
    /\ Returns(Call("handleMouseButton", "void", Zero64))
    /\ UNCHANGED << coreVars, threadPc, uiPc, uiCont, crashed, cpuVars,
                    audio_initialized, m_mountPoints, vfsVars, gfxVars, memVars, pkgVars, ldrVars, snapVars, audVars, sysVars,
                    histVars >>

\* what a use of the released m_cpu can do: kill the process, or read the
\* stale object and go round the loop
DeadCpuOutcomes == {"crash", "stale"}

\* cpuThreadMain: the loop condition m_cpuRunning.load() && m_state !=
\* Stopping, then m_cpu->getState() == CpuState::Paused (sleep and test
\* again).  The three loads are one step: a write that lands between them
\* has the effect it has when it lands just before or just after, because
\* stop() waits for this thread and no other writer changes two of them.
CpuThreadLoopTest ==
    /\ threadPc = "loop_test"
    /\ ~crashed
    /\ IF ~(m_cpuRunning /\ core_m_state # "Stopping")
       THEN /\ threadPc' = "exited"
            /\ UNCHANGED crashed
       ELSE IF cpuAlive
       THEN /\ threadPc' = IF cpu_m_state = "Paused" THEN "loop_test"
                           ELSE "step"
            /\ UNCHANGED crashed
       ELSE \E outcome \in DeadCpuOutcomes :
               /\ crashed' = (outcome = "crash")
               /\ threadPc' = "loop_test"
    /\ lastCall' = NoCall
    /\ UNCHANGED << coreVars, uiPc, uiCont, cpuVars, pad, audio_initialized,
                    m_mountPoints, vfsVars, gfxVars, memVars, pkgVars, ldrVars, snapVars, audVars, sysVars, histVars >>

\* The model follows the guest while RIP is in the first MaxCode bytes of
\* the arena, which hold every image loaded here.
MaxCode == 80
InCodeWindow(rip) == LT64(translateAddress(rip), U64Of(MaxCode))

\* the CPU thread is about to call step()
CpuThreadStepEnabled ==
    /\ threadPc = "step"
    /\ ~crashed
    /\ cpuAlive => InCodeWindow(m_context.RIP)

\* cpuThreadMain: m_cpu->step(), its result dropped
CpuThreadStep ==
    /\ CpuThreadStepEnabled
    /\ threadPc' = "loop_test"
    /\ IF cpuAlive
       THEN LET r == step(m_context, arena, syscalls)
            IN  /\ m_context' = r.ctx
                /\ arena' = r.arena
                /\ syscalls' = r.d
                /\ cpu_m_state' = IF r.state = "same" THEN cpu_m_state
                                  ELSE r.state
                /\ stepsSincePause' =
                       IF core_m_state = "Paused" /\ stepsSincePause < 2
                       THEN stepsSincePause + 1 ELSE stepsSincePause
                /\ UNCHANGED crashed
       ELSE \E outcome \in DeadCpuOutcomes :
               /\ crashed' = (outcome = "crash")
               /\ UNCHANGED << m_context, arena, syscalls, cpu_m_state,
                               histVars >>
    /\ lastCall' = NoCall
    /\ UNCHANGED << coreVars, uiPc, uiCont, cpuAlive, m_shouldStop,
                    m_instructionCount, pad, audio_initialized, m_mountPoints,
                    vfsVars, gfxVars, memVars, pkgVars, ldrVars, snapVars, audVars, sysVars >>

(***************************************************************************)
(* Part 4.  WeaR_System and WeaR_Cpu::runLoop.                             *)
(*                                                                         *)
(* The controller thread calls the WeaR_System operations; uiPc is its     *)
(* position inside a call that waits ("sys_join": in join(), "pause_store":*)
(* between the load and the store of WeaR_Cpu::pause).  threadPc is the    *)
(* position of the CPU thread inside cpuThreadFunc / runLoop:              *)
(*   rl_enter  before m_state.store(Running)                               *)
(*   rl_clear  before m_shouldStop.store(false)                            *)
(*   rl_test   at the while test                                           *)
(*   rl_step   before step()                                               *)
(*   rl_exit   after the loop, before the final store of m_state           *)
(*   tf_switch back in cpuThreadFunc, before the switch on the CPU state   *)
(*   exited    finished, still joinable;  none: no joinable thread         *)
(* cpuAlive stands for m_cpu and m_elfLoader being allocated.              *)
(***************************************************************************)
\* PS4Memory::Region::STACK_TOP = 0x00007FFFFFFFF000
STACK_TOP == << 16773120, 8388607, 0 >>

\* nop ; jmp -6
LoopImage == << 144, 233, 250, 255, 255, 255 >>
LoopGame  == [name |-> "loop.elf", dir |-> HostRootA, exists |-> TRUE,
              e_entry |-> USER_BASE,
              segments |-> << [p_vaddr |-> USER_BASE, p_memsz |-> 6,
                               data |-> LoopImage] >>]
SysGameFiles == { HaltGame, FaultGame, LoopGame }

\* what no WeaR_System operation touches
sysFrame == << coreVars, lastCall, crashed, syscalls, pad, audio_initialized,
               m_mountPoints, vfsVars, gfxVars, memVars, pkgVars, ldrVars, snapVars, audVars, histVars >>

\* WeaR_System::initialize.  memOk: the arena allocation succeeded.
SysInitialize(memOk) ==
    /\ uiPc = "idle"
    /\ IF sys_m_state # "Uninitialized"
       THEN UNCHANGED << sys_m_state, cpuAlive, cpu_m_state, m_shouldStop,
                         m_instructionCount, m_context, arena >>
       ELSE IF ~memOk
       THEN /\ sys_m_state' = "Error"
            /\ UNCHANGED << cpuAlive, cpu_m_state, m_shouldStop,
                            m_instructionCount, m_context, arena >>
       ELSE /\ arena' = << >>
            /\ cpuAlive' = TRUE
            /\ CpuReset
            /\ sys_m_state' = "Ready"
    /\ UNCHANGED << sys_m_entryPoint, stopRequested, threadPc, uiPc, uiCont,
                    sysFrame >>

\* WeaR_System::loadGame.  The writes of RIP and RSP are not synchronised
\* with the CPU thread; they land between two of its instructions.
SysLoadGame(file) ==
    /\ uiPc = "idle"
    /\ IF ~cpuAlive
       THEN UNCHANGED << arena, m_context, sys_m_entryPoint, sys_m_state >>
       ELSE LET result == loadElf(file, arena)
            IN  /\ arena' = result.arena
                /\ IF ~result.ok
                   THEN UNCHANGED << m_context, sys_m_entryPoint, sys_m_state >>
                   ELSE /\ sys_m_entryPoint' = result.entryPoint
                        /\ m_context' =
                             [m_context EXCEPT
                                !.RIP = result.entryPoint,
                                !.GPR[RSP] = Sub64(STACK_TOP, U64Of(8))]
                        /\ sys_m_state' = "Ready"
    /\ UNCHANGED << cpuAlive, cpu_m_state, m_shouldStop, m_instructionCount,
                    stopRequested, threadPc, uiPc, uiCont, sysFrame >>

\* WeaR_Cpu::stop
CpuStop ==
    /\ m_shouldStop' = TRUE
    /\ cpu_m_state' = "Stopped"

\* WeaR_System::boot up to the join, or to the spawn when nothing is joined
SysBoot ==
    /\ uiPc = "idle"
    /\ IF sys_m_state # "Ready" \/ sys_m_entryPoint = Zero64
       THEN UNCHANGED << cpu_m_state, m_shouldStop, stopRequested, threadPc,
                         uiPc, uiCont, sys_m_state >>
       ELSE IF threadPc # "none"
       THEN /\ CpuStop
            /\ stopRequested' = TRUE
            /\ uiPc' = "sys_join"
            /\ uiCont' = "boot"
            /\ UNCHANGED << threadPc, sys_m_state >>
       ELSE /\ sys_m_state' = "Running"
            /\ threadPc' = "rl_enter"
            /\ UNCHANGED << cpu_m_state, m_shouldStop, stopRequested, uiPc,
                            uiCont >>
    /\ UNCHANGED << cpuAlive, m_instructionCount, m_context, arena,
                    sys_m_entryPoint, sysFrame >>

\* WeaR_System::stop up to the join; continuation names the caller
\* (stop, reset or shutdown)
SysStopBegin(continuation) ==
    /\ uiPc = "idle"
    /\ IF cpuAlive
       THEN /\ CpuStop
            /\ stopRequested' = (threadPc # "none")
       ELSE UNCHANGED << m_shouldStop, cpu_m_state, stopRequested >>
    /\ uiPc' = "sys_join"
    /\ uiCont' = continuation
    /\ UNCHANGED << cpuAlive, m_instructionCount, m_context, arena, threadPc,
                    sys_m_state, sys_m_entryPoint, sysFrame >>

SysStop     == SysStopBegin("stop")
SysReset    == SysStopBegin("reset")
SysShutdown == SysStopBegin("shutdown")

\* join() returns, and the caller runs to its end
SysJoin ==
    /\ uiPc = "sys_join"
    /\ threadPc \in {"none", "exited"}
    /\ stopRequested' = FALSE
    /\ uiPc' = "idle"
    /\ uiCont' = "none"
    /\ CASE uiCont = "boot" ->
              /\ sys_m_state' = "Running"
              /\ threadPc' = "rl_enter"
              /\ UNCHANGED << cpuAlive, cpu_m_state, m_shouldStop,
                              m_instructionCount, m_context, arena,
                              sys_m_entryPoint >>
         [] uiCont = "stop" ->
              /\ sys_m_state' = "Stopped"
              /\ threadPc' = "none"
              /\ UNCHANGED << cpuAlive, cpu_m_state, m_shouldStop,
                              m_instructionCount, m_context, arena,
                              sys_m_entryPoint >>
         [] uiCont = "reset" ->
              /\ IF cpuAlive THEN CpuReset
                 ELSE UNCHANGED << cpu_m_state, m_shouldStop,
                                   m_instructionCount, m_context >>
              /\ sys_m_entryPoint' = Zero64
              /\ sys_m_state' = "Ready"
              /\ threadPc' = "none"
              /\ UNCHANGED << cpuAlive, arena >>
         [] uiCont = "shutdown" ->
              /\ cpuAlive' = FALSE
              /\ CpuReset
              /\ arena' = << >>
              /\ sys_m_state' = "Uninitialized"
              /\ threadPc' = "none"
              /\ UNCHANGED sys_m_entryPoint
    /\ UNCHANGED sysFrame

\* WeaR_System::pause up to the load of the CPU state in WeaR_Cpu::pause
SysPause ==
    /\ uiPc = "idle"
    /\ IF ~(cpuAlive /\ sys_m_state = "Running")
       THEN UNCHANGED << uiPc, sys_m_state >>
       ELSE IF cpu_m_state = "Running"
       THEN /\ uiPc' = "pause_store"
            /\ UNCHANGED sys_m_state
       ELSE /\ sys_m_state' = "Paused"
            /\ UNCHANGED uiPc
    /\ UNCHANGED << cpuVars, threadPc, uiCont, sys_m_entryPoint, stopRequested,
                    coreVars, lastCall, crashed, pad, audio_initialized,
                    m_mountPoints, vfsVars, gfxVars, memVars, pkgVars, ldrVars, snapVars, audVars, histVars >>

\* the store of WeaR_Cpu::pause, then setState(Paused)
SysPauseStore ==
    /\ uiPc = "pause_store"
    /\ cpu_m_state' = "Paused"
    /\ sys_m_state' = "Paused"
    /\ uiPc' = "idle"
    /\ UNCHANGED << cpuAlive, m_shouldStop, m_instructionCount, m_context,
                    arena, threadPc, uiCont, sys_m_entryPoint, stopRequested,
                    sysFrame >>

\* WeaR_System::resume
SysResume ==
    /\ uiPc = "idle"
    /\ IF ~(cpuAlive /\ sys_m_state = "Paused")
       THEN UNCHANGED << cpu_m_state, sys_m_state >>
       ELSE /\ cpu_m_state' = IF cpu_m_state = "Paused" THEN "Running"
                              ELSE cpu_m_state
            /\ sys_m_state' = "Running"
    /\ UNCHANGED << cpuAlive, m_shouldStop, m_instructionCount, m_context,
                    arena, threadPc, uiPc, uiCont, sys_m_entryPoint,
                    stopRequested, sysFrame >>

\* what the CPU thread leaves alone whatever it does
threadFrame == << uiPc, uiCont, cpuAlive, sys_m_entryPoint, stopRequested,
                  sysFrame >>

\* runLoop: m_state.store(CpuState::Running)
RunLoopEnter ==
    /\ threadPc = "rl_enter"
    /\ cpu_m_state' = "Running"
    /\ threadPc' = "rl_clear"
    /\ UNCHANGED << m_shouldStop, m_instructionCount, m_context, arena,
                    sys_m_state, threadFrame >>

\* runLoop: m_shouldStop.store(false)
RunLoopClear ==
    /\ threadPc = "rl_clear"
    /\ m_shouldStop' = FALSE
    /\ threadPc' = "rl_test"
    /\ UNCHANGED << cpu_m_state, m_instructionCount, m_context, arena,
                    sys_m_state, threadFrame >>

\* runLoop: the while test and the test for a pause
RunLoopTest ==
    /\ threadPc = "rl_test"
    /\ threadPc' = IF m_shouldStop THEN "rl_exit"
                   ELSE IF cpu_m_state = "Paused" THEN "rl_test"
                   ELSE "rl_step"
    /\ UNCHANGED << cpu_m_state, m_shouldStop, m_instructionCount, m_context,
                    arena, sys_m_state, threadFrame >>

\* runLoop is about to call step()
RunLoopStepEnabled ==
    /\ threadPc = "rl_step"
    /\ InCodeWindow(m_context.RIP)

\* runLoop: step(), the break on 0, the count
RunLoopStep ==
    /\ RunLoopStepEnabled
    /\ LET r == step(m_context, arena, syscalls)
       IN  /\ m_context' = r.ctx
           /\ arena' = r.arena
           /\ syscalls' = r.d
           /\ cpu_m_state' = IF r.state = "same" THEN cpu_m_state ELSE r.state
           /\ IF r.cycles = 0
              THEN /\ threadPc' = "rl_exit"
                   /\ UNCHANGED m_instructionCount
              ELSE /\ threadPc' = "rl_test"
                   /\ m_instructionCount' = Bump(m_instructionCount)
    /\ UNCHANGED << m_shouldStop, sys_m_state, uiPc, uiCont, cpuAlive,
                    sys_m_entryPoint, stopRequested, coreVars, lastCall,
                    crashed, pad, audio_initialized, m_mountPoints, vfsVars, gfxVars, memVars, pkgVars, ldrVars, snapVars, audVars,
                    histVars >>

\* runLoop: if (m_state.load() != Faulted) m_state.store(Stopped).  No
\* other thread writes Faulted, so the load and the store act as one step.
RunLoopExit ==
    /\ threadPc = "rl_exit"
    /\ cpu_m_state' = IF cpu_m_state = "Faulted" THEN "Faulted" ELSE "Stopped"
    /\ threadPc' = "tf_switch"
    /\ UNCHANGED << m_shouldStop, m_instructionCount, m_context, arena,
                    sys_m_state, threadFrame >>

\* cpuThreadFunc: the switch on the CPU state after runLoop
CpuThreadFuncEnd ==
    /\ threadPc = "tf_switch"
    /\ sys_m_state' =
          CASE cpu_m_state = "Halted" -> "Stopped"
            [] cpu_m_state = "Faulted" -> "Error"
            [] OTHER -> IF sys_m_state # "Error" THEN "Stopped" ELSE "Error"
    /\ threadPc' = "exited"
    /\ UNCHANGED << cpu_m_state, m_shouldStop, m_instructionCount, m_context,
                    arena, threadFrame >>

\* first descriptor WeaR_VFS hands out
FIRST_FD == 10

(***************************************************************************)
(* Part 5b.  WeaR_VFS file operations.                                     *)
(*                                                                         *)
(* m_openFiles maps a descriptor to its handle [hostPath, isDirectory,     *)
(* writable]; hostFiles is the set of regular files of the host, as        *)
(* canonical paths.  lastVfs is the latest call that came back:            *)
(* [op, fd, ret, threw].  closedFds is history: the descriptors for which  *)
(* closeFile returned SCE_OK.                                              *)
(***************************************************************************)
SCE_OK == 0
SCE_ERROR_ENOENT == -2147352574
SCE_ERROR_EACCES == -2147352557
SCE_ERROR_EBADF  == -2147352567
SCE_ERROR_EINVAL == -2147352542
SCE_ERROR_ENOSPC == -2147352536

\* the open flags the requests use
OpenFlagSets == { {}, {"O_WRONLY", "O_CREAT"}, {"O_CREAT"}, {"O_DIRECTORY"} }

\* std::filesystem::is_directory / exists on the host
is_directory(path) == weakly_canonical(path) \in HostDirs
exists(path, hfiles) == weakly_canonical(path) \in HostDirs \cup hfiles

\* std::map::erase
MapRemove(f, k) == [x \in (DOMAIN f) \ {k} |-> f[x]]

\* closeFile that answers SCE_OK and keeps the handle
closeFileKeepsHandle(files, fd) ==
    IF fd \notin DOMAIN files THEN [ret |-> SCE_ERROR_EBADF, files |-> files]
    ELSE [ret |-> SCE_OK, files |-> files]

\* WeaR_VFS::closeFile: [ret, files]
closeFile(files, fd) ==
    IF fd \notin DOMAIN files THEN [ret |-> SCE_ERROR_EBADF, files |-> files]
    ELSE [ret |-> SCE_OK, files |-> MapRemove(files, fd)]

\* openFile that takes its descriptor from allocateFd before it checks the
\* path, and so spends one on a failed open
openFileAllocatesFirst(ps4Path, flags, hostOk, mounts, files, nextFd, hfiles) ==
    LET hostPath == resolvePath(ps4Path, mounts)
    IN  IF hostPath = << >>
        THEN [ret |-> SCE_ERROR_ENOENT, files |-> files,
              nextFd |-> nextFd + 1, hfiles |-> hfiles]
        ELSE IF "O_DIRECTORY" \in flags /\ is_directory(hostPath)
        THEN [ret |-> nextFd,
              files |-> MapPut(files, nextFd,
                               [hostPath |-> hostPath, isDirectory |-> TRUE,
                                writable |-> FALSE]),
              nextFd |-> nextFd + 1, hfiles |-> hfiles]
        ELSE [ret |-> SCE_ERROR_ENOENT, files |-> files,
              nextFd |-> nextFd + 1, hfiles |-> hfiles]

\* WeaR_VFS::openFile once resolvePath has come back.  hostOk: the host
\* lets the stream open where that depends on the platform (a directory
\* opened as a file, a file to be created).
\* Result: [ret, files, nextFd, hfiles].
openFile(ps4Path, flags, hostOk, mounts, files, nextFd, hfiles) ==
    LET hostPath == resolvePath(ps4Path, mounts)
        Fail(code) == [ret |-> code, files |-> files, nextFd |-> nextFd,
                       hfiles |-> hfiles]
        Opened(handle, hf) ==
            [ret |-> nextFd, files |-> MapPut(files, nextFd, handle),
             nextFd |-> nextFd + 1, hfiles |-> hf]
        in  == "O_WRONLY" \notin flags
        out == "O_WRONLY" \in flags \/ "O_CREAT" \in flags
        canon == weakly_canonical(hostPath)
        parent == SubSeq(canon, 1, Len(canon) - 1)
    IN  IF hostPath = << >> THEN Fail(SCE_ERROR_ENOENT)
        ELSE IF "O_DIRECTORY" \in flags
        THEN IF ~is_directory(hostPath) THEN Fail(SCE_ERROR_ENOENT)
             ELSE Opened([hostPath |-> hostPath, isDirectory |-> TRUE,
                          writable |-> FALSE], hfiles)
        ELSE IF "O_CREAT" \notin flags /\ ~exists(hostPath, hfiles)
        THEN Fail(SCE_ERROR_ENOENT)
        ELSE LET handle == [hostPath |-> hostPath, isDirectory |-> FALSE,
                            writable |-> out]
             IN  IF is_directory(hostPath)
                 THEN IF hostOk THEN Opened(handle, hfiles)
                      ELSE Fail(SCE_ERROR_EACCES)
                 ELSE IF canon \in hfiles
                 THEN Opened(handle, hfiles)
                 ELSE \* the file is missing: only mode "w" creates it
                      IF ~in /\ hostOk /\ parent \in HostDirs
                      THEN Opened(handle, hfiles \cup {canon})
                      ELSE Fail(SCE_ERROR_EACCES)

\* WeaR_VFS::readFile: the bytes read (none here) or the error
readFile(files, fd) ==
    IF fd \notin DOMAIN files THEN SCE_ERROR_EBADF
    ELSE IF files[fd].isDirectory THEN SCE_ERROR_EBADF
    ELSE 0

\* WeaR_VFS::writeFile of one byte
writeFile(files, fd) ==
    IF fd \notin DOMAIN files THEN SCE_ERROR_EBADF
    ELSE IF files[fd].isDirectory THEN SCE_ERROR_EBADF
    ELSE IF ~files[fd].writable THEN SCE_ERROR_ENOSPC
    ELSE 1

\* WeaR_VFS::seekFile with offset 0
seekFile(files, fd, whence) ==
    IF fd \notin DOMAIN files THEN SCE_ERROR_EBADF
    ELSE IF files[fd].isDirectory THEN SCE_ERROR_EBADF
    ELSE IF whence \notin {0, 1, 2} THEN SCE_ERROR_EINVAL
    ELSE 0

\* WeaR_VFS::statFile
statFile(files, fd, hfiles) ==
    IF fd \notin DOMAIN files THEN SCE_ERROR_EBADF
    ELSE IF files[fd].isDirectory THEN SCE_OK
    ELSE IF ~exists(files[fd].hostPath, hfiles) THEN SCE_ERROR_ENOENT
    ELSE SCE_OK

\* most descriptors the model hands out
MaxOpens == 2

\* the guest paths of the requests: a file, a directory, a missing file, a
\* path under no mount
PathAF == << "/", "a", "/", "f" >>
PathA  == << "/", "a" >>
PathAN == << "/", "a", "/", "n" >>
PathOF == << "/", "o", "/", "f" >>
\* an escape attempt, as /app0/../../etc/passwd
PathEscape == << "/", "a", "/", DOTDOT, "/", DOTDOT, "/", "e" >>
OpenPaths == { PathAF, PathA, PathAN, PathOF, PathEscape }
HostFileAF == << RootDir, << "a" >>, << "f" >> >>

FdArgs == (FIRST_FD - 1) .. (FIRST_FD + MaxOpens)

\* what the VFS operations leave alone
vfsFrame == << coreVars, threadPc, uiPc, uiCont, lastCall, crashed, cpuVars,
               pad, audio_initialized, sysVars, histVars, resolveIn,
               resolveOut, gfxVars, memVars, pkgVars, ldrVars, snapVars, audVars >>

VfsReturn(op, fd, ret) ==
    lastVfs' = [op |-> op, fd |-> fd, ret |-> ret, threw |-> FALSE]

\* WeaR_VFS::mount of an existing host directory
VfsMount(virtualPath, host) ==
    /\ vfsMutex = "free"
    /\ m_mountPoints' = mount(m_mountPoints, virtualPath, host)
    /\ VfsReturn("mount", 0, SCE_OK)
    /\ UNCHANGED << m_openFiles, m_nextFd, vfsMutex, closedFds, hostFiles,
                    vfsFrame >>

\* WeaR_VFS::unmount
VfsUnmount(virtualPath) ==
    /\ vfsMutex = "free"
    /\ m_mountPoints' = MapRemove(m_mountPoints, normalizePath(virtualPath))
    /\ VfsReturn("unmount", 0, SCE_OK)
    /\ UNCHANGED << m_openFiles, m_nextFd, vfsMutex, closedFds, hostFiles,
                    vfsFrame >>

\* openFile holds m_mutex and calls resolvePath, which locks m_mutex again
\* on the same thread: undefined for std::mutex.  The builds block for
\* ever, throw std::system_error out of the second lock, or let the owner
\* through.
RelockOutcomes == { "deadlock", "throws", "proceeds" }

\* what openFile leaves alone
openFrame == << coreVars, threadPc, uiPc, uiCont, lastCall, crashed, cpuVars,
               pad, audio_initialized, sysVars, histVars, gfxVars, memVars, pkgVars, ldrVars, snapVars, audVars >>

\* WeaR_VFS::openFile.  resolveIn and resolveOut keep the argument and the
\* result of its call of resolvePath.
VfsOpen(ps4Path, flags, hostOk, outcome) ==
    /\ vfsMutex = "free"
    /\ m_nextFd < FIRST_FD + MaxOpens
    /\ resolveIn' = ps4Path
    /\ CASE outcome = "deadlock" ->
              /\ vfsMutex' = "deadlocked"
              /\ resolveOut' = << >>
              /\ UNCHANGED << m_openFiles, m_nextFd, hostFiles, lastVfs >>
         [] outcome = "throws" ->
              /\ lastVfs' = [op |-> "open", fd |-> 0, ret |-> 0,
                             threw |-> TRUE]
              /\ resolveOut' = << >>
              /\ UNCHANGED << m_openFiles, m_nextFd, hostFiles, vfsMutex >>
         [] outcome = "proceeds" ->
              LET r == openFile(ps4Path, flags, hostOk, m_mountPoints,
                                m_openFiles, m_nextFd, hostFiles)
              IN  /\ m_openFiles' = r.files
                  /\ m_nextFd' = r.nextFd
                  /\ hostFiles' = r.hfiles
                  /\ resolveOut' = resolvePath(ps4Path, m_mountPoints)
                  /\ VfsReturn("open", 0, r.ret)
                  /\ UNCHANGED vfsMutex
    /\ UNCHANGED << m_mountPoints, closedFds, openFrame >>

\* WeaR_VFS::closeFile
VfsClose(fd) ==
    /\ vfsMutex = "free"
    /\ LET r == closeFile(m_openFiles, fd)
       IN  /\ m_openFiles' = r.files
           /\ closedFds' = IF r.ret = SCE_OK THEN closedFds \cup {fd}
                           ELSE closedFds
           /\ VfsReturn("close", fd, r.ret)
    /\ UNCHANGED << m_mountPoints, m_nextFd, vfsMutex, hostFiles, vfsFrame >>

\* WeaR_VFS::readFile
VfsRead(fd) ==
    /\ vfsMutex = "free"
    /\ VfsReturn("read", fd, readFile(m_openFiles, fd))
    /\ UNCHANGED << m_mountPoints, m_openFiles, m_nextFd, vfsMutex, closedFds,
                    hostFiles, vfsFrame >>

\* WeaR_VFS::writeFile
VfsWrite(fd) ==
    /\ vfsMutex = "free"
    /\ VfsReturn("write", fd, writeFile(m_openFiles, fd))
    /\ UNCHANGED << m_mountPoints, m_openFiles, m_nextFd, vfsMutex, closedFds,
                    hostFiles, vfsFrame >>

\* WeaR_VFS::seekFile
VfsSeek(fd, whence) ==
    /\ vfsMutex = "free"
    /\ VfsReturn("seek", fd, seekFile(m_openFiles, fd, whence))
    /\ UNCHANGED << m_mountPoints, m_openFiles, m_nextFd, vfsMutex, closedFds,
                    hostFiles, vfsFrame >>

\* WeaR_VFS::statFile
VfsStat(fd) ==
    /\ vfsMutex = "free"
    /\ VfsReturn("stat_fd", fd, statFile(m_openFiles, fd, hostFiles))
    /\ UNCHANGED << m_mountPoints, m_openFiles, m_nextFd, vfsMutex, closedFds,
                    hostFiles, vfsFrame >>

\* WeaR_VFS::statPath once resolvePath has come back: the value returned
\* (the PS4Stat it fills is not kept)
statPath(ps4Path, mounts, hfiles) ==
    LET hostPath == resolvePath(ps4Path, mounts)
    IN  IF hostPath = << >> \/ ~exists(hostPath, hfiles)
        THEN SCE_ERROR_ENOENT
        ELSE SCE_OK

\* WeaR_VFS::statPath: it locks m_mutex and calls resolvePath as openFile
\* does
VfsStatPath(ps4Path, outcome) ==
    /\ vfsMutex = "free"
    /\ resolveIn' = ps4Path
    /\ CASE outcome = "deadlock" ->
              /\ vfsMutex' = "deadlocked"
              /\ resolveOut' = << >>
              /\ UNCHANGED lastVfs
         [] outcome = "throws" ->
              /\ lastVfs' = [op |-> "stat_path", fd |-> 0, ret |-> 0,
                             threw |-> TRUE]
              /\ resolveOut' = << >>
              /\ UNCHANGED vfsMutex
         [] outcome = "proceeds" ->
              /\ resolveOut' = resolvePath(ps4Path, m_mountPoints)
              /\ VfsReturn("stat_path", 0,
                           statPath(ps4Path, m_mountPoints, hostFiles))
              /\ UNCHANGED vfsMutex
    /\ UNCHANGED << m_mountPoints, m_openFiles, m_nextFd, hostFiles,
                    closedFds, openFrame >>

(***************************************************************************)
(* Part 5c.  Path resolution on its own: the mounts and the guest path are *)
(* drawn at the start, one step resolves.                                  *)
(***************************************************************************)
MaxPathLen == 6
PathSymbols == { SLASH, BACKSLASH, DOTDOT, "a", "o" }
GuestPaths == UNION { [1..n -> PathSymbols] : n \in 0..MaxPathLen }

MountPointA == << SLASH, "a" >>
MountPointO == << SLASH, "o" >>

\* the tables mount() can build from the mount points /a, /o and the host
\* directories /a, /o
MountTables ==
    UNION { [D -> {HostRootA, HostRootO}] :
              D \in SUBSET {MountPointA, MountPointO} }

\* a caller resolves resolveIn (fileExists, or any direct use)
Resolve ==
    /\ resolveOut = << >>
    /\ resolveOut' = resolvePath(resolveIn, m_mountPoints)
    /\ UNCHANGED << coreVars, threadPc, uiPc, uiCont, lastCall, crashed,
                    cpuVars, pad, audio_initialized, m_mountPoints,
                    m_openFiles, m_nextFd, vfsMutex, lastVfs, closedFds,
                    hostFiles, resolveIn, sysVars, histVars, gfxVars,
                    memVars, pkgVars, ldrVars, snapVars, audVars >>

(***************************************************************************)
(* Part 5d.  Render queue (WeaR_RenderQueue) and PM4 parser                *)
(* (WeaR_GnmDriver).  A uint32_t of a command buffer is its 4 bytes, least *)
(* significant first.  A command is a WeaR_DrawCmd with the fields the     *)
(* parser sets.                                                            *)
(***************************************************************************)

\* the uint32_t whose value is n, for 0 <= n < 2^24
W(n) == << n % 256, (n \div 256) % 256, n \div 65536, 0 >>

\* PM4::PacketHeader: type() = raw >> 30, count() = (raw >> 16) & 0x3FFF,
\* opcode() = (raw >> 8) & 0xFF, payloadSize() = count() + 1
HeaderType(raw) == raw[4] \div 64
HeaderCount(raw) == (raw[4] * 256 + raw[3]) % 16384
HeaderOpcode(raw) == raw[2]
isType3(raw) == HeaderType(raw) = 3
\* a payload size that takes the count field for the number of words
payloadSizeIsCount(raw) == HeaderCount(raw)
payloadSize(raw) == HeaderCount(raw) + 1

\* PM4::Opcode
IT_DISPATCH_DIRECT == 21
IT_DRAW_INDEX_2 == 39
IT_INDEX_TYPE == 42
IT_DRAW_INDEX_AUTO == 45
IT_NUM_INSTANCES == 47
IT_INDIRECT_BUFFER == 63
IT_NOP == 16

\* WeaR_DrawCmd as constructed: type None, instanceCount 1, the rest 0
DrawCmd ==
    [type |-> "None", vertexCount |-> W(0), indexCount |-> W(0),
     instanceCount |-> W(1), indexBufferAddr |-> Zero64, indexType |-> W(0),
     groupCountX |-> W(0), groupCountY |-> W(0), groupCountZ |-> W(0)]

\* an endFrame() whose record is an ordinary command
EndFrameCmdUnmarked == [DrawCmd EXCEPT !.type = "None"]

\* the command endFrame() pushes
EndFrameCmd == [DrawCmd EXCEPT !.type = "EndFrame"]

\* GpuState::reset: the fields the handlers read or write
GpuStateReset ==
    [indexBufferAddr |-> Zero64, indexType |-> W(0), instanceCount |-> W(1)]

\* What a packet handler does: [st, cmds, queued, nested].  cmds are the
\* commands it pushes on the render queue, queued its m_drawCallsQueued++,
\* nested the (bufferAddr, sizeInDwords) it recurses into, if any.
Handled(st, cmds, queued) ==
    [st |-> st, cmds |-> cmds, queued |-> queued, nested |-> << >>]

\* a handler that takes the draw initiator for the vertex count
handleDrawIndexAutoInitiator(payload, count, st) ==
    IF count < 2 THEN Handled(st, << >>, 0)
    ELSE Handled(st, << [DrawCmd EXCEPT !.type = "DrawAuto",
                                        !.vertexCount = payload[2],
                                        !.instanceCount = st.instanceCount] >>,
                 1)

\* WeaR_GnmDriver::handleDrawIndexAuto
handleDrawIndexAuto(payload, count, st) ==
    IF count < 2 THEN Handled(st, << >>, 0)
    ELSE Handled(st, << [DrawCmd EXCEPT !.type = "DrawAuto",
                                        !.vertexCount = payload[1],
                                        !.instanceCount = st.instanceCount] >>,
                 1)

\* WeaR_GnmDriver::handleDrawIndex2
handleDrawIndex2(payload, count, st) ==
    IF count < 4 THEN Handled(st, << >>, 0)
    ELSE LET indexBufferAddr == FromBytes(payload[2] \o payload[3])
         IN  Handled([st EXCEPT !.indexBufferAddr = indexBufferAddr],
                     << [DrawCmd EXCEPT !.type = "DrawIndexed",
                                        !.indexCount = payload[4],
                                        !.indexBufferAddr = indexBufferAddr,
                                        !.instanceCount = st.instanceCount,
                                        !.indexType = st.indexType] >>,
                     1)

\* WeaR_GnmDriver::handleDispatchDirect
handleDispatchDirect(payload, count, st) ==
    IF count < 4 THEN Handled(st, << >>, 0)
    ELSE Handled(st, << [DrawCmd EXCEPT !.type = "ComputeDispatch",
                                        !.groupCountX = payload[1],
                                        !.groupCountY = payload[2],
                                        !.groupCountZ = payload[3]] >>,
                 0)

\* WeaR_GnmDriver::handleIndexType: payload[0] & 0x3
handleIndexType(payload, count, st) ==
    IF count < 1 THEN Handled(st, << >>, 0)
    ELSE Handled([st EXCEPT !.indexType = << payload[1][1] % 4, 0, 0, 0 >>],
                 << >>, 0)

\* WeaR_GnmDriver::handleNumInstances
handleNumInstances(payload, count, st) ==
    IF count < 1 THEN Handled(st, << >>, 0)
    ELSE Handled([st EXCEPT !.instanceCount = payload[1]], << >>, 0)

\* WeaR_GnmDriver::handleIndirectBuffer:
\* bufferAddr = payload[0] | (payload[1] & 0xFFFF) << 32,
\* sizeInDwords = payload[2] & 0xFFFFF; then processCommandBuffer on them
handleIndirectBuffer(payload, count, st) ==
    IF count < 3 THEN Handled(st, << >>, 0)
    ELSE [st |-> st, cmds |-> << >>, queued |-> 0,
          nested |-> << FromBytes(payload[1] \o
                                  << payload[2][1], payload[2][2], 0, 0 >>),
                        payload[3][1] + 256 * payload[3][2]
                            + 65536 * (payload[3][3] % 16) >>]

\* the switch of processCommandBuffer; the opcodes not named here have
\* handlers that do nothing or no handler
handlePacket(opcode, payload, count, st) ==
    CASE opcode = IT_DRAW_INDEX_AUTO -> handleDrawIndexAuto(payload, count, st)
      [] opcode = IT_DRAW_INDEX_2 -> handleDrawIndex2(payload, count, st)
      [] opcode = IT_DISPATCH_DIRECT -> handleDispatchDirect(payload, count, st)
      [] opcode = IT_INDEX_TYPE -> handleIndexType(payload, count, st)
      [] opcode = IT_NUM_INSTANCES -> handleNumInstances(payload, count, st)
      [] opcode = IT_INDIRECT_BUFFER -> handleIndirectBuffer(payload, count, st)
      [] OTHER -> Handled(st, << >>, 0)

\* address of the uint32_t at index i of the buffer: bufferAddr + i * 4
\* (i < 2^30, as sizeInDwords is a byte count divided by 4)
WordAddr(bufferAddr, i) == Add64(bufferAddr, U64Of(i * 4))

\* One iteration of the while loop of processCommandBuffer on the
\* activation f, up to the call of the handler.
\* kind: "fault" (mem.read throws), "skip" (not Type 3), "overflow" (the
\* safety check breaks out of the loop), "packet".
parsePacket(f, mem, st) ==
    LET raw == MemRead(mem, WordAddr(f.bufferAddr, f.offset), 4)
        offset == f.offset + 1
        payloadCount == payloadSize(raw)
        None(kind) == [kind |-> kind, offset |-> offset,
                       payloadCount |-> payloadCount,
                       h |-> Handled(st, << >>, 0)]
    IN  IF ~MemReadOk(WordAddr(f.bufferAddr, f.offset), 4) THEN None("fault")
        ELSE IF ~isType3(raw) THEN None("skip")
        ELSE IF offset + payloadCount > f.sizeInDwords THEN None("overflow")
        ELSE IF \E i \in 0..(payloadCount - 1) :
                    ~MemReadOk(WordAddr(f.bufferAddr, offset + i), 4)
        THEN None("fault")
        ELSE LET payload ==
                    [i \in 1..payloadCount |->
                        MemRead(mem, WordAddr(f.bufferAddr, offset + i - 1), 4)]
             IN  [kind |-> "packet", offset |-> offset,
                  payloadCount |-> payloadCount,
                  h |-> handlePacket(HeaderOpcode(raw), payload, payloadCount,
                                     st)]

\* ------------------------------------------------------------------------
\* Render queue operations.  The pushing thread is the CPU thread (parser
\* and syscall handlers), the popping thread the render thread.
\* ------------------------------------------------------------------------

\* most commands pushed in a run of the model
MaxPush == 3

\* deepest stack of processCommandBuffer activations the model follows
MaxDepth == 18

\* what the graphics operations leave alone
gfxFrame == << coreVars, threadPc, uiPc, uiCont, lastCall, crashed, pad,
               audio_initialized, m_mountPoints, vfsVars, sysVars, histVars,
               memVars, pkgVars, ldrVars, snapVars, audVars >>

\* the latest call that came back: popped is the result of popAll, ok the
\* result of waitForCommands (or: no exception left the call), timedOut
\* whether waitForCommands came back on its timeout, after the history of
\* endFrame() the call found; tick tells a call from the one before it
GfxResult(op, popped, ok, timedOut) ==
    [op |-> op, popped |-> popped, ok |-> ok, timedOut |-> timedOut,
     after |-> sinceEndFrame, tick |-> ~lastGfx.tick]

NoEndFrame == [started |-> FALSE, returned |-> FALSE, disturbed |-> FALSE]

\* another queue operation came after the marker of endFrame()
Disturb(s) == IF s.started THEN [s EXCEPT !.disturbed = TRUE] ELSE s

\* the commands the direct pushes carry
ClearCmd == [DrawCmd EXCEPT !.type = "Clear"]
BindCmd == [DrawCmd EXCEPT !.type = "BindVertexBuffer"]
PushArgs == { << ClearCmd >>, << BindCmd >>, << ClearCmd, BindCmd >> }

\* a push that leaves the waiter asleep
notify_nobody(waiting, pending) == pending

\* m_condVar.notify_one(): the blocked waiter, if there is one, is woken
notify_one(waiting, pending) == pending \/ waiting

\* a push that puts its commands at the head of the queue
pushLockedFront(cmds) ==
    /\ Len(pushedLog) + Len(cmds) <= MaxPush
    /\ rq_m_queue' = cmds \o rq_m_queue
    /\ pushedLog' = pushedLog \o cmds
    /\ producerPc' = "notify"

\* push, the part under the mutex: m_queue.push_back for each command
pushLocked(cmds) ==
    /\ Len(pushedLog) + Len(cmds) <= MaxPush
    /\ rq_m_queue' = rq_m_queue \o cmds
    /\ pushedLog' = pushedLog \o cmds
    /\ producerPc' = "notify"

\* WeaR_RenderQueue::push of one command or of a non-empty vector, up to
\* the release of the mutex
Push(cmds) ==
    /\ producerPc = "idle"
    /\ gnmStack = << >>
    /\ pushLocked(cmds)
    /\ endFramePending' = FALSE
    /\ sinceEndFrame' = Disturb(sinceEndFrame)
    /\ UNCHANGED << m_frameCount, consumerPc, notified, gnmStack, gnm_m_state,
                    lastGfx, poppedLog, queueCleared, gnmStats, cpuVars,
                    gfxFrame >>

\* WeaR_RenderQueue::endFrame up to the release of the mutex in push
EndFrame ==
    /\ producerPc = "idle"
    /\ gnmStack = << >>
    /\ pushLocked(<< EndFrameCmd >>)
    /\ endFramePending' = TRUE
    /\ sinceEndFrame' = [started |-> TRUE, returned |-> FALSE,
                         disturbed |-> FALSE]
    /\ UNCHANGED << m_frameCount, consumerPc, notified, gnmStack, gnm_m_state,
                    lastGfx, poppedLog, queueCleared, gnmStats, cpuVars,
                    gfxFrame >>

\* the notify_one that ends a push, with an endFrame() that leaves
\* m_frameCount alone
PushNotifyUncounted ==
    /\ producerPc = "notify"
    /\ producerPc' = "idle"
    /\ notified' = notify_one(consumerPc = "waiting", notified)
    /\ endFramePending' = FALSE
    /\ IF endFramePending
       THEN /\ sinceEndFrame' = [sinceEndFrame EXCEPT !.returned = TRUE]
            /\ lastGfx' = GfxResult("end_frame", << >>, TRUE, FALSE)
       ELSE /\ UNCHANGED sinceEndFrame
            /\ lastGfx' = IF gnmStack = << >>
                          THEN GfxResult("push", << >>, TRUE, FALSE)
                          ELSE lastGfx
    /\ UNCHANGED << m_frameCount, rq_m_queue, consumerPc, gnmStack,
                    gnm_m_state, pushedLog, poppedLog, queueCleared, gnmStats,
                    cpuVars, gfxFrame >>

\* a popAll that leaves m_totalPopped alone
PopAllUncounted ==
    /\ consumerPc = "idle"
    /\ rq_m_queue' = << >>
    /\ lastGfx' = GfxResult("pop_all", rq_m_queue, TRUE, FALSE)
    /\ sinceEndFrame' = IF sinceEndFrame.returned THEN NoEndFrame
                        ELSE Disturb(sinceEndFrame)
    /\ UNCHANGED << poppedLog, m_frameCount, producerPc, endFramePending,
                    consumerPc, notified, gnmStack, gnm_m_state, pushedLog,
                    queueCleared, gnmStats, cpuVars, gfxFrame >>

\* the notify_one that ends a push, and with it the rest of endFrame()
\* (m_frameCount++) when the push was the one of endFrame()
PushNotify ==
    /\ producerPc = "notify"
    /\ producerPc' = "idle"
    /\ notified' = notify_one(consumerPc = "waiting", notified)
    /\ endFramePending' = FALSE
    /\ IF endFramePending
       THEN /\ m_frameCount' = Bump(m_frameCount)
            /\ sinceEndFrame' = [sinceEndFrame EXCEPT !.returned = TRUE]
            /\ lastGfx' = GfxResult("end_frame", << >>, TRUE, FALSE)
       ELSE /\ UNCHANGED << m_frameCount, sinceEndFrame >>
            /\ lastGfx' = IF gnmStack = << >>
                          THEN GfxResult("push", << >>, TRUE, FALSE)
                          ELSE lastGfx
    /\ UNCHANGED << rq_m_queue, consumerPc, gnmStack, gnm_m_state, pushedLog,
                    poppedLog, queueCleared, gnmStats, cpuVars, gfxFrame >>

\* WeaR_RenderQueue::popAll
PopAll ==
    /\ consumerPc = "idle"
    /\ rq_m_queue' = << >>
    /\ poppedLog' = poppedLog \o rq_m_queue
    /\ lastGfx' = GfxResult("pop_all", rq_m_queue, TRUE, FALSE)
    /\ sinceEndFrame' = IF sinceEndFrame.returned THEN NoEndFrame
                        ELSE Disturb(sinceEndFrame)
    /\ UNCHANGED << m_frameCount, producerPc, endFramePending, consumerPc,
                    notified, gnmStack, gnm_m_state, pushedLog, queueCleared,
                    gnmStats, cpuVars, gfxFrame >>

\* WeaR_RenderQueue::clear
Clear ==
    /\ rq_m_queue # << >>
    /\ rq_m_queue' = << >>
    /\ queueCleared' = TRUE
    /\ sinceEndFrame' = Disturb(sinceEndFrame)
    /\ lastGfx' = GfxResult("clear", << >>, TRUE, FALSE)
    /\ UNCHANGED << m_frameCount, producerPc, endFramePending, consumerPc,
                    notified, gnmStack, gnm_m_state, pushedLog, poppedLog,
                    gnmStats, cpuVars, gfxFrame >>

\* WeaR_RenderQueue::waitForCommands up to wait_for: it returns true at
\* once when the queue holds commands, and blocks otherwise
WaitBegin ==
    /\ consumerPc = "idle"
    /\ IF rq_m_queue # << >>
       THEN /\ lastGfx' = GfxResult("wait", << >>, TRUE, FALSE)
            /\ UNCHANGED << consumerPc, notified >>
       ELSE /\ consumerPc' = "waiting"
            /\ notified' = FALSE
            /\ UNCHANGED lastGfx
    /\ UNCHANGED << rq_m_queue, m_frameCount, producerPc, endFramePending,
                    gnmStack, gnm_m_state, pushedLog, poppedLog, sinceEndFrame,
                    queueCleared, gnmStats, cpuVars, gfxFrame >>

\* wait_for wakes, on a notify_one or spuriously, and tests its predicate
\* under the mutex: it returns true when the queue holds commands and goes
\* back to sleep otherwise
WaitWake(spurious) ==
    /\ consumerPc = "waiting"
    /\ notified \/ spurious
    /\ notified' = FALSE
    /\ IF rq_m_queue # << >>
       THEN /\ consumerPc' = "idle"
            /\ lastGfx' = GfxResult("wait", << >>, TRUE, FALSE)
       ELSE UNCHANGED << consumerPc, lastGfx >>
    /\ UNCHANGED << rq_m_queue, m_frameCount, producerPc, endFramePending,
                    gnmStack, gnm_m_state, pushedLog, poppedLog, sinceEndFrame,
                    queueCleared, gnmStats, cpuVars, gfxFrame >>

\* wait_for runs into its timeout and returns the predicate
WaitTimeout ==
    /\ consumerPc = "waiting"
    /\ consumerPc' = "idle"
    /\ notified' = FALSE
    /\ lastGfx' = GfxResult("wait", << >>, rq_m_queue # << >>, TRUE)
    /\ UNCHANGED << rq_m_queue, m_frameCount, producerPc, endFramePending,
                    gnmStack, gnm_m_state, pushedLog, poppedLog, sinceEndFrame,
                    queueCleared, gnmStats, cpuVars, gfxFrame >>

\* ------------------------------------------------------------------------
\* Command buffers in guest memory and the parser's activations.
\* ------------------------------------------------------------------------

\* a Type-3 header word with the given opcode and count field
Hdr(opcode, count) == << 0, opcode, count % 256, 192 + count \div 256 >>

\* the bytes of a sequence of words
WordBytes(ws) ==
    [i \in 1..(4 * Len(ws)) |-> ws[((i - 1) \div 4) + 1][((i - 1) % 4) + 1]]

\* guest addresses of the buffers: USER_BASE + 0x1000, + 0x1100, ...
BufAt(k) == Add64(USER_BASE, U64Of(4096 + 256 * k))
BufLow(k) == W(4194304 + 4096 + 256 * k)

\* [header(0x2D, count=1), 128, 0]
BufDraw == [addr |-> BufAt(0),
            words |-> << Hdr(IT_DRAW_INDEX_AUTO, 1), W(128), W(0) >>]
\* NUM_INSTANCES 3; DRAW_INDEX_AUTO 5; DISPATCH_DIRECT 1 2 3 with its
\* fourth word
BufScene == [addr |-> BufAt(1),
             words |-> << Hdr(IT_NUM_INSTANCES, 0), W(3),
                          Hdr(IT_DRAW_INDEX_AUTO, 1), W(5), W(0),
                          Hdr(IT_DISPATCH_DIRECT, 3), W(1), W(2), W(3),
                          W(0) >>]
\* DISPATCH_DIRECT with the three group counts and nothing else
BufDispatch3 == [addr |-> BufAt(2),
                 words |-> << Hdr(IT_DISPATCH_DIRECT, 2), W(1), W(2),
                              W(3) >>]
\* INDIRECT_BUFFER that names the buffer it lies in
BufSelf == [addr |-> BufAt(3),
            words |-> << Hdr(IT_INDIRECT_BUFFER, 2), BufLow(3), W(0),
                         W(4) >>]
\* INDIRECT_BUFFER into BufDraw, then a NOP
BufNest == [addr |-> BufAt(4),
            words |-> << Hdr(IT_INDIRECT_BUFFER, 2), BufLow(0), W(0), W(3),
                         Hdr(IT_NOP, 0), W(0) >>]
\* INDEX_TYPE 1; DRAW_INDEX_2 of 6 indices
BufIndexed == [addr |-> BufAt(5),
               words |-> << Hdr(IT_INDEX_TYPE, 0), W(1),
                            Hdr(IT_DRAW_INDEX_2, 3), W(0), W(8192), W(0),
                            W(6) >>]
\* a Type-0 word, then a packet whose count runs over the end
BufRagged == [addr |-> BufAt(6),
              words |-> << W(0), Hdr(IT_DRAW_INDEX_AUTO, 9), W(1) >>]
\* a buffer whose first word straddles the end of the arena
BufBeyond == [addr |-> Add64(USER_BASE, << LIMB - 2, 511, 0 >>),
              words |-> << W(0) >>]

Buffers == { BufDraw, BufScene, BufDispatch3, BufSelf, BufNest, BufIndexed,
             BufRagged, BufBeyond }

\* the arena with the buffers written into it by the guest
RECURSIVE WriteBuffers(_, _)
WriteBuffers(mem, bs) ==
    IF bs = {} THEN mem
    ELSE LET b == CHOOSE x \in bs : TRUE
         IN  WriteBuffers(IF b = BufBeyond THEN mem
                          ELSE MemWrite(mem, b.addr, WordBytes(b.words)),
                          bs \ {b})

GfxArena == WriteBuffers(<< >>, Buffers)

\* an activation of processCommandBuffer: offset is its local, pending the
\* payloadCount of the packet whose handler is running a nested
\* activation, stopped tells that a break has left the loop
Activation(bufferAddr, sizeInDwords) ==
    [bufferAddr |-> bufferAddr, sizeInDwords |-> sizeInDwords, offset |-> 0,
     pending |-> 0, stopped |-> FALSE]

Top == gnmStack[Len(gnmStack)]

SetTop(f) == [gnmStack EXCEPT ![Len(gnmStack)] = f]

\* handleSubmitCommandBuffers with one buffer: the call of
\* processCommandBuffer(bufferAddr, sizeInDwords, mem)
GnmSubmit(b) ==
    /\ gnmStack = << >>
    /\ producerPc = "idle"
    /\ gnmStack' = << Activation(b.addr, Len(b.words)) >>
    /\ UNCHANGED << rq_m_queue, m_frameCount, producerPc, endFramePending,
                    consumerPc, notified, gnm_m_state, lastGfx, pushedLog,
                    poppedLog, sinceEndFrame, queueCleared, gnmStats, cpuVars,
                    gfxFrame >>

\* one iteration of the while loop of processCommandBuffer in the
\* innermost activation
GnmPacket ==
    /\ gnmStack # << >>
    /\ producerPc = "idle"
    /\ ~Top.stopped
    /\ Top.offset < Top.sizeInDwords
    /\ \E r \in { parsePacket(Top, arena, gnm_m_state) } :
       LET h == r.h
       IN  CASE r.kind = "fault" ->
                   \* the exception of mem.read leaves every activation
                   /\ gnmStack' = << >>
                   /\ lastGfx' = GfxResult("submit", << >>, FALSE, FALSE)
                   /\ UNCHANGED << rq_m_queue, pushedLog, producerPc,
                                   sinceEndFrame, gnm_m_state, gnmStats >>
             [] r.kind = "skip" ->
                   /\ gnmStack' = SetTop([Top EXCEPT !.offset = r.offset])
                   /\ UNCHANGED << rq_m_queue, pushedLog, producerPc,
                                   sinceEndFrame, gnm_m_state, gnmStats,
                                   lastGfx >>
             [] r.kind = "overflow" ->
                   /\ gnmStack' = SetTop([Top EXCEPT !.offset = r.offset,
                                                     !.stopped = TRUE])
                   /\ UNCHANGED << rq_m_queue, pushedLog, producerPc,
                                   sinceEndFrame, gnm_m_state, gnmStats,
                                   lastGfx >>
             [] r.kind = "packet" /\ h.nested # << >> ->
                   /\ Len(gnmStack) < MaxDepth
                   /\ gnmStack' =
                        Append(SetTop([Top EXCEPT !.offset = r.offset,
                                                  !.pending = r.payloadCount]),
                               Activation(h.nested[1], h.nested[2]))
                   /\ UNCHANGED << rq_m_queue, pushedLog, producerPc,
                                   sinceEndFrame, gnm_m_state, gnmStats,
                                   lastGfx >>
             [] r.kind = "packet" /\ h.nested = << >> ->
                   /\ gnmStack' =
                        SetTop([Top EXCEPT
                                   !.offset = r.offset + r.payloadCount])
                   /\ gnm_m_state' = h.st
                   /\ gnmStats' =
                        [m_packetsProcessed |->
                            Bump(gnmStats.m_packetsProcessed),
                         m_drawCallsQueued |->
                            IF h.queued = 1
                            THEN Bump(gnmStats.m_drawCallsQueued)
                            ELSE gnmStats.m_drawCallsQueued]
                   /\ IF h.cmds # << >>
                      THEN /\ pushLocked(h.cmds)
                           /\ sinceEndFrame' = Disturb(sinceEndFrame)
                      ELSE UNCHANGED << rq_m_queue, pushedLog, producerPc,
                                        sinceEndFrame >>
                   /\ UNCHANGED lastGfx
    /\ UNCHANGED << m_frameCount, endFramePending, consumerPc, notified,
                    poppedLog, queueCleared, cpuVars, gfxFrame >>

\* the innermost activation returns: its loop has ended.  The handler
\* that called it returns too, and the loop of the caller goes on with
\* offset += payloadCount; m_packetsProcessed++
GnmReturn ==
    /\ gnmStack # << >>
    /\ producerPc = "idle"
    /\ Top.stopped \/ Top.offset >= Top.sizeInDwords
    /\ IF Len(gnmStack) = 1
       THEN /\ gnmStack' = << >>
            /\ lastGfx' = GfxResult("submit", << >>, TRUE, FALSE)
            /\ UNCHANGED gnmStats
       ELSE LET caller == gnmStack[Len(gnmStack) - 1]
            IN  /\ gnmStack' =
                     [SubSeq(gnmStack, 1, Len(gnmStack) - 1)
                        EXCEPT ![Len(gnmStack) - 1] =
                           [caller EXCEPT !.offset = @ + caller.pending,
                                          !.pending = 0]]
                /\ gnmStats' = [gnmStats EXCEPT
                                  !.m_packetsProcessed = Bump(@)]
                /\ UNCHANGED lastGfx
    /\ UNCHANGED << rq_m_queue, m_frameCount, producerPc, endFramePending,
                    consumerPc, notified, gnm_m_state, pushedLog, poppedLog,
                    sinceEndFrame, queueCleared, cpuVars, gfxFrame >>

\* the guest's syscall 614 (sceGnmSubmitDone), as execSYSCALL hands it to
\* the dispatcher
SysSubmitDone ==
    /\ gnmStack = << >>
    /\ producerPc = "idle"
    /\ LET r == dispatch([m_context EXCEPT
                             !.GPR[RAX] = U64Of(SYS_sceGnmSubmitDone)],
                         arena, syscalls)
       IN  /\ m_context' = r.ctx
           /\ arena' = r.arena
           /\ syscalls' = r.d
    /\ lastGfx' = GfxResult("submit_done", << >>, TRUE, FALSE)
    /\ UNCHANGED << rq_m_queue, m_frameCount, producerPc, endFramePending,
                    consumerPc, notified, gnmStack, gnm_m_state, pushedLog,
                    poppedLog, sinceEndFrame, queueCleared, gnmStats,
                    cpuAlive, cpu_m_state, m_shouldStop, m_instructionCount,
                    gfxFrame >>

\* m_totalPushed: push adds the number of commands it appends, under the
\* mutex, so the counter is the length of the push history
m_totalPushed == Len(pushedLog)

\* m_totalPopped: popAll adds result.size() under the mutex
m_totalPopped == Len(poppedLog)

(***************************************************************************)
(* Part 5e.  Memory accesses on their own: the address and the length are  *)
(* drawn at the start, an access is one step.  A length is a size_t, a     *)
(* uint64_t as the addresses are.                                          *)
(***************************************************************************)

\* WeaR_Memory::validateAccess passes for a length n given as a uint64_t:
\* physicalAddr + size is computed in uint64_t
validateAccess(physicalAddr, n) ==
    ~LT64(MEMORY_SIZE, Add64(physicalAddr, n))

\* WeaR_Memory::isValidAddress on an allocated arena
isValidAddress64(virtualAddress, n) ==
    validateAccess(translateAddress(virtualAddress), n)

\* the lengths asked for: sizeof(T) of the typed accesses, and lengths no
\* arena can hold
TypedSizes == { U64Of(1), U64Of(2), U64Of(4), U64Of(8) }
HugeSizes == { << LIMB - 1, LIMB - 1, TOPLIMB - 1 >>,
               << LIMB - 4, LIMB - 1, TOPLIMB - 1 >>,
               << LIMB - 8, LIMB - 1, TOPLIMB - 1 >>,
               << 1, 512, 0 >>,
               << 0, 0, TOPLIMB \div 2 >> }
AccessSizes == { Zero64 } \cup TypedSizes \cup HugeSizes

\* the addresses asked for: the start of the arena, inside it, its last
\* bytes
AccessAddrs == { Zero64, U64Of(4), U64Of(8), USER_BASE,
                 Add64(USER_BASE, U64Of(4)),
                 << 0, 64, 0 >>,
                 << LIMB - 4, 511, 0 >>, << LIMB - 1, 511, 0 >> }

\* what an access leaves alone
memFrame == << coreVars, threadPc, uiPc, uiCont, lastCall, crashed, cpuVars,
               pad, audio_initialized, m_mountPoints, vfsVars, sysVars,
               histVars, gfxVars, memReq, arenaBytes,
               pkgVars, ldrVars, snapVars, audVars >>

\* the size of the fallback allocation: 512 * 1024 * 1024
FALLBACK_SIZE == << 0, 32, 0 >>

\* p + n, taken as an unbounded integer, is larger than size
PastEnd(p, n, size) ==
    LET s1 == p[1] + n[1]
        s2 == p[2] + n[2] + (s1 \div LIMB)
        s3 == p[3] + n[3] + (s2 \div LIMB)
    IN  s3 >= TOPLIMB \/ LT64(size, << s1 % LIMB, s2 % LIMB, s3 >>)

\* memcpy, memset or the dereference with the range [p, p + n): inside
\* the arena it is done; past its end the behaviour is undefined, the
\* process dies or runs on over foreign memory
AccessOutcomes(p, n) ==
    IF PastEnd(p, n, arenaBytes) THEN { "crash", "overrun" } ELSE { "done" }

\* the body shared by read<T>, write<T>, readBlock, writeBlock and fill:
\* translateAddress, validateAccess, then the access
CheckedAccess(op) ==
    LET p == translateAddress(memReq.va)
    IN  IF ~validateAccess(p, memReq.n)
        THEN memOut' = [op |-> op, result |-> "OutOfBounds"]
        ELSE \E o \in AccessOutcomes(p, memReq.n) :
                memOut' = [op |-> op, result |-> o]

\* WeaR_Memory::read<T>
MemTypedRead ==
    /\ memReq.n \in TypedSizes
    /\ CheckedAccess("read")
    /\ UNCHANGED memFrame

\* WeaR_Memory::write<T>
MemTypedWrite ==
    /\ memReq.n \in TypedSizes
    /\ CheckedAccess("write")
    /\ UNCHANGED memFrame

\* WeaR_Memory::readBlock with a destination
MemReadBlock ==
    /\ IF memReq.n = Zero64
       THEN memOut' = [op |-> "readBlock", result |-> "nothing"]
       ELSE CheckedAccess("readBlock")
    /\ UNCHANGED memFrame

\* WeaR_Memory::writeBlock with a source
MemWriteBlock ==
    /\ IF memReq.n = Zero64
       THEN memOut' = [op |-> "writeBlock", result |-> "nothing"]
       ELSE CheckedAccess("writeBlock")
    /\ UNCHANGED memFrame

\* WeaR_Memory::fill
MemFill ==
    /\ IF memReq.n = Zero64
       THEN memOut' = [op |-> "fill", result |-> "nothing"]
       ELSE CheckedAccess("fill")
    /\ UNCHANGED memFrame

\* WeaR_Memory::isValidAddress
MemIsValid ==
    /\ memOut' = [op |-> "isValidAddress",
                  result |-> IF isValidAddress64(memReq.va, memReq.n)
                             THEN "true" ELSE "false"]
    /\ UNCHANGED memFrame

(***************************************************************************)
(* Part 5f.  The interpreter on its own: one call of WeaR_Cpu::step on an  *)
(* instruction the guest has put at USER_BASE, with the registers the      *)
(* guest has loaded.                                                       *)
(***************************************************************************)

\* LibPad's number of scePadReadState
SYS_scePadReadState == 571

\* LibAudio's number of sceAudioOutInit
SYS_sceAudioOutInit == 495

\* -14 as the uint64_t the dispatcher stores in RAX
EFAULT64 == << LIMB - 14, LIMB - 1, TOPLIMB - 1 >>

\* a guest buffer, and an address whose uint32_t crosses the arena's end
PadBuf == Add64(USER_BASE, U64Of(4096))
LastBytes == Add64(USER_BASE, << LIMB - 3, 511, 0 >>)

\* the numbers the guest calls: registered ones, numbers of the HLE
\* modules, numbers nobody knows
SyscallNumbers ==
    { 0, 3, 5, 6, SYS_getpid, SYS_sceAudioOutInit, SYS_scePadReadState,
      SYS_sceGnmSubmitCommandBuffers, SYS_sceKernelGetCpuTemperature }
SyscallRdi == { Zero64, PadBuf, LastBytes }
SyscallRsi == { PadBuf, LastBytes }

\* what a step of the interpreter leaves alone
guestFrame == << coreVars, threadPc, uiPc, uiCont, lastCall, crashed, pad,
                 audio_initialized, m_mountPoints, vfsVars, sysVars,
                 histVars, gfxVars, memVars, pkgVars, ldrVars, snapVars, audVars, cpuAlive, m_shouldStop,
                 m_instructionCount >>

\* the guest code before a SYSCALL: number and arguments are in the
\* registers, the instruction pointer is at the SYSCALL.  (A submit with
\* buffers that can be read is followed in Part 5d.)
GuestLoads(num, rdi, rsi) ==
    /\ cpu_m_state = "Running"
    /\ m_context.RIP # USER_BASE
    /\ syscalls.m_totalCalls < MaxCount
    /\ num = SYS_sceGnmSubmitCommandBuffers =>
          (rdi = Zero64 \/ rsi = LastBytes)
    /\ m_context' = [ContextReset EXCEPT !.GPR[RAX] = U64Of(num),
                                         !.GPR[RDI] = rdi,
                                         !.GPR[RSI] = rsi,
                                         !.RIP = USER_BASE]
    /\ UNCHANGED << arena, syscalls, cpu_m_state, guestFrame >>

\* m_cpu->step() on the instruction at USER_BASE
GuestStep ==
    /\ cpu_m_state = "Running"
    /\ m_context.RIP = USER_BASE
    /\ \E r \in { step(m_context, arena, syscalls) } :
          /\ m_context' = r.ctx
          /\ arena' = r.arena
          /\ syscalls' = r.d
          /\ cpu_m_state' = IF r.state = "same" THEN cpu_m_state
                            ELSE r.state
    /\ UNCHANGED guestFrame

\* the instructions decoded: no prefix, REX.W, REX.W+B, REX.B before
\* PUSH r, POP r, MOV r, imm; then 8 bytes of immediate
DecodePrefixes == { << >>, << 72 >>, << 73 >>, << 65 >> }
DecodeOpcodes == (80..87) \cup (88..95) \cup (184..191)
Imm == << 17, 34, 51, 68, 85, 102, 119, 136 >>
StackAddr == Add64(USER_BASE, U64Of(8192))
StackBytes == << 1, 2, 3, 4, 5, 6, 7, 8 >>

\* registers of a guest in mid-run: each holds a value of its own, the
\* stack pointer (m_context.RSP) points into the guest's stack
DecodeContext ==
    [ContextReset EXCEPT
        !.GPR = [i \in DOMAIN ContextReset.GPR |->
                    IF i = RSP THEN StackAddr ELSE U64Of(1000 + i)],
        !.RIP = USER_BASE]

\* no snapshot asked for yet
NoSnapshot == [taken |-> FALSE, ctx |-> ContextReset,
               before |-> ContextReset, after |-> ContextReset]

\* The copies of a WeaR_Context another thread can get while step() writes
\* it.  getCpuSnapshot copies m_cpu->getContext() with no lock and the
\* fields of m_context are plain (non-atomic) members, so the copy races
\* with the writes of the instruction: each register, RIP and RFLAGS is
\* read before or after the step wrote it.  (Values RIP holds between the
\* fetches of one instruction can be read as well; they are left out.)
RacingCopies(before, after) ==
    LET written == { r \in DOMAIN before.GPR : before.GPR[r] # after.GPR[r] }
    IN  { [GPR |-> [r \in DOMAIN before.GPR |->
                       IF r \in late THEN after.GPR[r] ELSE before.GPR[r]],
           RIP |-> rip, RFLAGS |-> flags] :
          late \in SUBSET written, rip \in { before.RIP, after.RIP },
          flags \in { before.RFLAGS, after.RFLAGS } }

\* what the snapshot and the two halves of a step leave alone
snapFrame == << coreVars, threadPc, uiPc, uiCont, lastCall, crashed, pad,
                audio_initialized, m_mountPoints, vfsVars, sysVars,
                histVars, gfxVars, memVars, pkgVars, ldrVars, audVars, cpuAlive,
                m_shouldStop, m_instructionCount >>

\* cpuThreadMain calls m_cpu->step(): the CPU thread enters step()
StepEnter ==
    /\ cpu_m_state = "Running"
    /\ m_context.RIP = USER_BASE
    /\ ~inStep
    /\ inStep' = TRUE
    /\ UNCHANGED << m_context, arena, syscalls, cpu_m_state, cpuSnapshot,
                    snapFrame >>

\* step() has executed the instruction and returns
StepLeave ==
    /\ inStep
    /\ inStep' = FALSE
    /\ \E r \in { step(m_context, arena, syscalls) } :
          /\ m_context' = r.ctx
          /\ arena' = r.arena
          /\ syscalls' = r.d
          /\ cpu_m_state' = IF r.state = "same" THEN cpu_m_state
                            ELSE r.state
    /\ UNCHANGED << cpuSnapshot, snapFrame >>

\* WeaR_EmulatorCore::getCpuSnapshot on the UI thread; m_cpu is set
GetCpuSnapshot ==
    /\ ~cpuSnapshot.taken
    /\ \E after \in { IF inStep THEN step(m_context, arena, syscalls).ctx
                      ELSE m_context } :
          \E c \in RacingCopies(m_context, after) :
             cpuSnapshot' = [taken |-> TRUE, ctx |-> c,
                             before |-> m_context, after |-> after]
    /\ UNCHANGED << inStep, m_context, arena, syscalls, cpu_m_state,
                    snapFrame >>

\* the instructions under the snapshot: those of the decoder, NOP, and
\* CALL rel32 with a displacement of 0x10
CallRel32 == << 232, 16, 0, 0, 0 >>
SnapshotCode ==
    { prefix \o << opcode >> \o Imm :
        prefix \in DecodePrefixes, opcode \in DecodeOpcodes }
    \cup { CallRel32, << 144 >> }

(***************************************************************************)
(* Part 5g.  WeaR_PkgLoader: extraction of the executable from a package.  *)
(*                                                                         *)
(* A loaded package is its entry table m_entries (id, dataOffset and       *)
(* dataSize of each entry, 32-bit fields) and the size of its file.  The   *)
(* file holds fileSize bytes, so a read of n <= fileSize - offset bytes at *)
(* offset yields exactly the bytes offset .. offset + n - 1: a payload is  *)
(* named by its offset and size.                                           *)
(***************************************************************************)
PKG_ENTRY_ID_EBOOT == 4096

\* 2ULL * 1024 * 1024 * 1024
TWO_GIB == << 0, 128, 0 >>

\* nothing extracted yet
NoExtract == [ok |-> FALSE, error |-> "none", offset |-> Zero64,
              size |-> Zero64]

Unexpected(e) ==
    [ok |-> FALSE, error |-> e, offset |-> Zero64, size |-> Zero64]

\* the vector extractEntry returns: size bytes of the file from offset on
Payload(offset, size) ==
    [ok |-> TRUE, error |-> "", offset |-> offset, size |-> size]

\* std::min(static_cast<uint64_t>(entry.dataSize), fileSize - entry.dataOffset)
effectiveSize(entry, fsize) ==
    LET maxReadable == Sub64(fsize, entry.dataOffset)
    IN  IF LT64(maxReadable, entry.dataSize) THEN maxReadable
        ELSE entry.dataSize

RECURSIVE findEntry(_, _, _)
\* the loop "for (const auto& entry : m_entries) if (entry.id == entryId)":
\* the index of the first entry with that id, 0 when there is none
findEntry(entries, entryId, i) ==
    IF i > Len(entries) THEN 0
    ELSE IF entries[i].id = entryId THEN i
    ELSE findEntry(entries, entryId, i + 1)

\* WeaR_PkgLoader::extractEntry on a loaded package
extractEntry(entries, fsize, entryId) ==
    LET i == findEntry(entries, entryId, 1)
        targetEntry == entries[i]
        finalSize == effectiveSize(targetEntry, fsize)
    IN  IF i = 0 THEN Unexpected("not found")
        ELSE IF ~LT64(targetEntry.dataOffset, fsize)
        THEN Unexpected("offset beyond file size")
        ELSE IF targetEntry.dataSize = Zero64
        THEN Unexpected("zero size")
        ELSE IF LT64(TWO_GIB, finalSize) THEN Unexpected("too large")
        ELSE Payload(targetEntry.dataOffset, finalSize)

RECURSIVE largestValid(_, _, _, _, _)
\* the scan of extractEboot from entry i on: the index of largestEntry at
\* its end (0 for nullptr)
largestValid(entries, fsize, i, largestEntry, maxSize) ==
    IF i > Len(entries) THEN largestEntry
    ELSE IF ~LT64(entries[i].dataOffset, fsize)
    THEN largestValid(entries, fsize, i + 1, largestEntry, maxSize)
    ELSE LET effective == effectiveSize(entries[i], fsize)
         IN  IF effective # Zero64 /\ LT64(maxSize, effective)
             THEN largestValid(entries, fsize, i + 1, i, effective)
             ELSE largestValid(entries, fsize, i + 1, largestEntry, maxSize)

\* WeaR_PkgLoader::extractEboot on a loaded package
extractEboot(entries, fsize) ==
    LET result == extractEntry(entries, fsize, PKG_ENTRY_ID_EBOOT)
        l == largestValid(entries, fsize, 1, 0, Zero64)
    IN  IF result.ok THEN result
        ELSE IF entries = << >> THEN Unexpected("no entries found")
        ELSE IF l = 0 THEN Unexpected("no valid entries")
        ELSE extractEntry(entries, fsize, entries[l].id)

PkgEntry(id, dataOffset, dataSize) ==
    [id |-> id, dataOffset |-> dataOffset, dataSize |-> dataSize]

\* The entries packages are built from: the three of the crafted package
\* (ids 0x1002, 0x1003, 0x1004 of sizes 10, 4096, 128), entries 0x1000 that
\* are valid, past the small file, or empty, an id carried twice, a size
\* running past the end of the small file, a size of 3 GiB, and a second
\* entry of 4096 bytes.
EntryPool ==
    { PkgEntry(4098, U64Of(1024), U64Of(10)),
      PkgEntry(4099, U64Of(2048), U64Of(4096)),
      PkgEntry(4100, U64Of(6144), U64Of(128)),
      PkgEntry(PKG_ENTRY_ID_EBOOT, U64Of(512), U64Of(256)),
      PkgEntry(PKG_ENTRY_ID_EBOOT, U64Of(9000), U64Of(256)),
      PkgEntry(PKG_ENTRY_ID_EBOOT, U64Of(512), Zero64),
      PkgEntry(4099, U64Of(9000), U64Of(10)),
      PkgEntry(4100, U64Of(7000), U64Of(4096)),
      PkgEntry(4098, U64Of(1024), << 0, 192, 0 >>),
      PkgEntry(4100, U64Of(3000), U64Of(4096)) }

\* a file of 8192 bytes and one of 3 GiB
FileSizes == { U64Of(8192), << 0, 192, 0 >> }

MaxEntries == 3
EntryTables == UNION { [1..n -> EntryPool] : n \in 0..MaxEntries }

pkgFrame == << coreVars, threadPc, uiPc, uiCont, lastCall, crashed, cpuVars,
               pad, audio_initialized, m_mountPoints, vfsVars, gfxVars,
               memVars, ldrVars, snapVars, audVars, audVars, sysVars, histVars >>

\* a call of extractEboot() on the loaded package
ExtractEboot ==
    /\ extracted = NoExtract
    /\ extracted' = extractEboot(m_entries, fileSize)
    /\ UNCHANGED << m_entries, fileSize, pkgFrame >>

(***************************************************************************)
(* Part 5h.  The PT_LOAD loop of WeaR_ElfLoader::loadElf on its own: one   *)
(* program header whose four 64-bit fields are drawn at the start, in a    *)
(* file of a drawn length; one pass of the loop body is one step.          *)
(***************************************************************************)

\* an Elf64::Phdr of type PT_LOAD
Phdr(p_offset, p_filesz, p_vaddr, p_memsz) ==
    [p_offset |-> p_offset, p_filesz |-> p_filesz,
     p_vaddr |-> p_vaddr, p_memsz |-> p_memsz]

\* nothing done yet with the header
NoSegment == [result |-> "none", reads |-> {}, writes |-> {}]

\* loadElf: phdr.p_offset + phdr.p_filesz > fileSize, computed in uint64_t
extendsBeyondFile(ph, size) ==
    LT64(size, Add64(ph.p_offset, ph.p_filesz))

\* loadSegment: "only load if there's file data"
copiesFileData(ph, size) ==
    ph.p_filesz # Zero64 /\ ~extendsBeyondFile(ph, size)

\* loadSegment: bssStart and bssSize
bssStart(ph) == Add64(ph.p_vaddr, ph.p_filesz)
bssSize(ph) == Sub64(ph.p_memsz, ph.p_filesz)

\* the bytes memcpy reads: p_filesz bytes at fileData.data() + p_offset
copyRead(ph) == [at |-> ph.p_offset, n |-> ph.p_filesz]

\* the bytes memcpy writes: p_filesz bytes at m_memory + physicalAddr
copyWrite(ph) == [at |-> translateAddress(ph.p_vaddr), n |-> ph.p_filesz]

\* the bytes memset writes for the BSS
zeroWrite(ph) == [at |-> translateAddress(bssStart(ph)), n |-> bssSize(ph)]

\* memcpy with a source range that leaves fileData or a destination range
\* that leaves the arena: the behaviour is undefined, the process dies or
\* runs on
CopyOutcomes(ph, size) ==
    IF \/ PastEnd(ph.p_offset, ph.p_filesz, size)
       \/ PastEnd(copyWrite(ph).at, ph.p_filesz, arenaBytes)
    THEN { "crash", "overrun" }
    ELSE { "done" }

\* loadSegment up to the end of writeBlock
segmentCopy(ph, size) ==
    IF ~copiesFileData(ph, size) THEN { [NoSegment EXCEPT !.result = "loaded"] }
    ELSE IF ~validateAccess(copyWrite(ph).at, ph.p_filesz)
    THEN { [NoSegment EXCEPT !.result = "threw"] }
    ELSE { [result |-> IF o = "crash" THEN "crash" ELSE "loaded",
            reads |-> { copyRead(ph) },
            writes |-> { copyWrite(ph) }] : o \in CopyOutcomes(ph, size) }

\* loadSegment from "Zero-fill BSS", entered with what the copy left
segmentZero(ph, c) ==
    IF c.result # "loaded" \/ ~LT64(ph.p_filesz, ph.p_memsz) THEN { c }
    ELSE IF ~validateAccess(zeroWrite(ph).at, bssSize(ph))
    THEN { [c EXCEPT !.result = "threw"] }
    ELSE { [c EXCEPT !.result = IF o = "crash" THEN "crash" ELSE "loaded",
                     !.writes = @ \cup { zeroWrite(ph) }] :
           o \in AccessOutcomes(zeroWrite(ph).at, bssSize(ph)) }

\* WeaR_ElfLoader::loadSegment: every way it can end
loadSegmentOutcomes(ph, size) ==
    UNION { segmentZero(ph, c) : c \in segmentCopy(ph, size) }

\* the header fields and file lengths tried: a file holds at least the ELF
\* header (64 bytes) and one program header (56 bytes)
PhdrOffsets == { Zero64, U64Of(120), << LIMB - 8, LIMB - 1, TOPLIMB - 1 >> }
PhdrFileSizes == { Zero64, U64Of(6), U64Of(136),
                   << LIMB - 8, LIMB - 1, TOPLIMB - 1 >> }
PhdrAddrs == { USER_BASE, Add64(USER_BASE, U64Of(4096)),
               Add64(USER_BASE, << LIMB - 4, 511, 0 >>) }
PhdrMemSizes == { U64Of(2), U64Of(6), U64Of(136), U64Of(256),
                  << LIMB - 1, LIMB - 1, TOPLIMB - 1 >> }
ElfSizes == { U64Of(128), U64Of(256) }

\* what the loop body leaves alone
ldrFrame == << coreVars, threadPc, uiPc, uiCont, lastCall, crashed, cpuVars,
               pad, audio_initialized, m_mountPoints, vfsVars, gfxVars,
               memVars, pkgVars, snapVars, audVars, sysVars, histVars >>

\* one pass of the PT_LOAD loop body of loadElf
LoadHeader ==
    /\ segOut = NoSegment
    /\ IF extendsBeyondFile(elfPhdr, elfSize)
       THEN segOut' = [NoSegment EXCEPT !.result = "extends beyond file"]
       ELSE IF ~isValidAddress64(elfPhdr.p_vaddr, elfPhdr.p_memsz)
       THEN segOut' = [NoSegment EXCEPT !.result = "exceeds memory bounds"]
       ELSE \E o \in loadSegmentOutcomes(elfPhdr, elfSize) : segOut' = o
    /\ UNCHANGED << elfPhdr, elfSize, ldrFrame >>

(***************************************************************************)
(* Part 5i.  Audio port registry (WeaR_AudioManager): m_initialized, the   *)
(* handles in m_ports, the handle counter and the mutex that guards them.  *)
(***************************************************************************)

\* most handles the model hands out
MaxHandles == 3

\* no audio call has come back yet
NoAudioCall == [op |-> "none", ret |-> 0, threw |-> FALSE]

AudioReturn(op, ret) == lastAudio' = [op |-> op, ret |-> ret, threw |-> FALSE]

\* what the audio manager leaves alone
audFrame == << coreVars, threadPc, uiPc, uiCont, lastCall, crashed, cpuVars,
               pad, m_mountPoints, vfsVars, gfxVars, memVars, pkgVars,
               ldrVars, snapVars, sysVars, histVars >>

\* WeaR_AudioManager::init called with m_mutex free
AudioInit ==
    /\ audioMutex = "free"
    /\ audio_initialized' = TRUE
    /\ AudioReturn("init", 1)
    /\ UNCHANGED << audioMutex, audio_m_ports, audio_m_nextHandle, audFrame >>

\* WeaR_AudioManager::shutdown
AudioShutdown ==
    /\ audioMutex = "free"
    /\ audio_m_ports' = << >>
    /\ audio_initialized' = FALSE
    /\ AudioReturn("shutdown", 0)
    /\ UNCHANGED << audioMutex, audio_m_nextHandle, audFrame >>

\* openPort holds m_mutex and, when m_initialized is false, calls init(),
\* which locks m_mutex again on the same thread: undefined for std::mutex.
\* The builds block for ever, throw std::system_error out of the second
\* lock, or let the owner through.
InitUnderLockOutcomes == { "deadlock", "throws", "proceeds" }

\* WeaR_AudioManager::openPort
AudioOpenPort(sampleCount, outcome) ==
    /\ audioMutex = "free"
    /\ audio_m_nextHandle <= MaxHandles
    /\ audio_initialized => outcome = "proceeds"
    /\ CASE outcome = "deadlock" ->
              /\ audioMutex' = "deadlocked"
              /\ UNCHANGED << audio_initialized, audio_m_ports,
                              audio_m_nextHandle, lastAudio >>
         [] outcome = "throws" ->
              /\ lastAudio' = [op |-> "openPort", ret |-> 0, threw |-> TRUE]
              /\ UNCHANGED << audio_initialized, audio_m_ports,
                              audio_m_nextHandle, audioMutex >>
         [] outcome = "proceeds" ->
              /\ audio_initialized' = TRUE
              /\ audio_m_ports' =
                    MapPut(audio_m_ports, audio_m_nextHandle,
                           IF sampleCount > 0 THEN sampleCount ELSE 256)
              /\ audio_m_nextHandle' = audio_m_nextHandle + 1
              /\ AudioReturn("openPort", audio_m_nextHandle)
              /\ UNCHANGED audioMutex
    /\ UNCHANGED audFrame

\* WeaR_AudioManager::closePort
AudioClosePort(handle) ==
    /\ audioMutex = "free"
    /\ IF handle \notin DOMAIN audio_m_ports
       THEN AudioReturn("closePort", -1) /\ UNCHANGED audio_m_ports
       ELSE /\ audio_m_ports' = MapRemove(audio_m_ports, handle)
            /\ AudioReturn("closePort", 0)
    /\ UNCHANGED << audioMutex, audio_initialized, audio_m_nextHandle,
                    audFrame >>

(***************************************************************************)
(* Part 6.  Specifications.                                                *)
(***************************************************************************)
vars == << coreVars, threadPc, uiPc, uiCont, lastCall, crashed,
           cpuVars, pad, audio_initialized, m_mountPoints,
           vfsVars, gfxVars, memVars, pkgVars, ldrVars, snapVars, audVars, sysVars, histVars >>

InitCore ==
    /\ core_m_state = "Idle"
    /\ m_initialized = FALSE
    /\ m_gameLoaded = FALSE
    /\ m_gamePath = ""
    /\ m_entryPoint = Zero64
    /\ m_cpuRunning = FALSE

InitThreads ==
    /\ threadPc = "none"
    /\ uiPc = "idle"
    /\ uiCont = "none"
    /\ lastCall = NoCall
    /\ crashed = FALSE

InitDispatcher ==
    syscalls = [m_totalCalls |-> 0, m_unimplementedCalls |-> 0,
                kernelLog |-> {}, nextAlloc |-> HEAP_BASE,
                nextModuleId |-> FIRST_MODULE_ID,
                unimplementedLines |-> << >>]

InitInput == pad = PadReset

InitHistory ==
    /\ stopRequested = FALSE
    /\ stepsSincePause = 0

InitVfs ==
    /\ m_mountPoints = << >>
    /\ m_openFiles = << >>
    /\ m_nextFd = FIRST_FD
    /\ vfsMutex = "free"
    /\ lastVfs = [op |-> "none", fd |-> 0, ret |-> 0, threw |-> FALSE]
    /\ closedFds = {}
    /\ hostFiles = {}
    /\ resolveIn = << >>
    /\ resolveOut = << >>

InitSystem ==
    /\ sys_m_state = "Uninitialized"
    /\ sys_m_entryPoint = Zero64

\* the render queue and the GNM driver after construction; no thread is
\* in a queue operation
InitGraphics ==
    /\ rq_m_queue = << >>
    /\ m_frameCount = 0
    /\ producerPc = "idle"
    /\ endFramePending = FALSE
    /\ consumerPc = "idle"
    /\ notified = FALSE
    /\ gnmStack = << >>
    /\ gnm_m_state = GpuStateReset
    /\ gnmStats = [m_packetsProcessed |-> 0, m_drawCallsQueued |-> 0]
    /\ lastGfx = [op |-> "none", popped |-> << >>, ok |-> TRUE,
                  timedOut |-> FALSE, after |-> NoEndFrame, tick |-> FALSE]
    /\ pushedLog = << >>
    /\ poppedLog = << >>
    /\ sinceEndFrame = NoEndFrame
    /\ queueCleared = FALSE

NoAccess == [op |-> "none", result |-> "none"]

\* no package is loaded
InitPkg ==
    /\ m_entries = << >>
    /\ fileSize = Zero64
    /\ extracted = NoExtract

InitLoader ==
    /\ elfPhdr = Phdr(Zero64, Zero64, Zero64, Zero64)
    /\ elfSize = Zero64
    /\ segOut = NoSegment

InitSnapshot ==
    /\ inStep = FALSE
    /\ cpuSnapshot = NoSnapshot

\* WeaR_AudioManager after construction; handles count from 1
InitAudioPorts ==
    /\ audioMutex = "free"
    /\ audio_m_ports = << >>
    /\ audio_m_nextHandle = 1
    /\ lastAudio = NoAudioCall

InitMemReq ==
    /\ memReq = [va |-> Zero64, n |-> Zero64]
    /\ memOut = NoAccess
    /\ arenaBytes = MEMORY_SIZE

\* the emulator core after construction: nothing allocated, no thread
Init ==
    /\ InitCore /\ InitThreads /\ InitDispatcher /\ InitInput
    /\ InitHistory /\ InitVfs /\ InitSystem /\ InitGraphics /\ InitPkg /\ InitLoader /\ InitSnapshot /\ InitAudioPorts /\ InitMemReq
    /\ cpuAlive = FALSE
    /\ cpu_m_state = "Stopped"
    /\ m_shouldStop = FALSE
    /\ m_instructionCount = 0
    /\ m_context = ContextReset
    /\ arena = << >>
    /\ audio_initialized = FALSE

Next ==
    \/ \E allocOk \in BOOLEAN : Initialize(allocOk)
    \/ Shutdown
    \/ \E file \in GameFiles : LoadGame(file)
    \/ LoadInternalBios
    \/ Run
    \/ Pause
    \/ Stop
    \/ StopJoin
    \/ TogglePause
    \/ \E button \in Buttons, pressed \in BOOLEAN :
            HandleMouseButton(button, pressed)
    \/ CpuThreadLoopTest
    \/ CpuThreadStep

SpecCore == Init /\ [][Next]_vars

\* The core loading well-formed and malformed files, the CPU thread running.
NextLoad ==
    \/ \E allocOk \in BOOLEAN : Initialize(allocOk)
    \/ Shutdown
    \/ \E file \in LoadFiles : LoadGame(file)
    \/ LoadInternalBios
    \/ Run
    \/ Stop
    \/ StopJoin
    \/ CpuThreadLoopTest
    \/ CpuThreadStep

SpecLoad == Init /\ [][NextLoad]_vars

NextCpu ==
    \/ \E memOk \in BOOLEAN : SysInitialize(memOk)
    \/ \E file \in SysGameFiles : SysLoadGame(file)
    \/ SysBoot
    \/ SysStop
    \/ SysReset
    \/ SysShutdown
    \/ SysJoin
    \/ SysPause
    \/ SysPauseStore
    \/ SysResume
    \/ RunLoopEnter
    \/ RunLoopClear
    \/ RunLoopTest
    \/ RunLoopStep
    \/ RunLoopExit
    \/ CpuThreadFuncEnd

SpecCpu == Init /\ [][NextCpu]_vars

\* as CpuThreadStepTaken, for runLoop's call of step()
RunLoopStepTaken == RunLoopStepEnabled /\ threadPc' \in {"rl_test", "rl_exit"}

\* the CPU thread is scheduled, and a join returns once its thread has ended
FairSpecCpu ==
    /\ SpecCpu
    /\ WF_vars(RunLoopEnter)
    /\ WF_vars(RunLoopClear)
    /\ WF_threadPc(RunLoopTest)
    /\ WF_threadPc(RunLoopStepTaken)
    /\ WF_vars(RunLoopExit)
    /\ WF_vars(CpuThreadFuncEnd)
    /\ WF_vars(SysJoin)

\* the VFS with the host file /a/f in place
InitVfsHost ==
    /\ InitCore /\ InitThreads /\ InitDispatcher /\ InitInput
    /\ InitHistory /\ InitSystem /\ InitGraphics /\ InitPkg /\ InitLoader /\ InitSnapshot /\ InitAudioPorts /\ InitMemReq
    /\ cpuAlive = FALSE
    /\ cpu_m_state = "Stopped"
    /\ m_shouldStop = FALSE
    /\ m_instructionCount = 0
    /\ m_context = ContextReset
    /\ arena = << >>
    /\ audio_initialized = FALSE
    /\ m_mountPoints = << >>
    /\ m_openFiles = << >>
    /\ m_nextFd = FIRST_FD
    /\ vfsMutex = "free"
    /\ lastVfs = [op |-> "none", fd |-> 0, ret |-> 0, threw |-> FALSE]
    /\ closedFds = {}
    /\ hostFiles = { HostFileAF }
    /\ resolveIn = << >>
    /\ resolveOut = << >>

NextVfs ==
    \/ VfsMount(MountPointA, HostRootA)
    \/ VfsMount(MountPointO, HostRootO)
    \/ VfsUnmount(MountPointO)
    \/ \E ps4Path \in OpenPaths, flags \in OpenFlagSets, hostOk \in BOOLEAN,
          outcome \in RelockOutcomes : VfsOpen(ps4Path, flags, hostOk, outcome)
    \/ \E fd \in FdArgs : VfsClose(fd)
    \/ \E fd \in FdArgs : VfsRead(fd)
    \/ \E fd \in FdArgs : VfsWrite(fd)
    \/ \E fd \in FdArgs, whence \in {0, 3} : VfsSeek(fd, whence)
    \/ \E fd \in FdArgs : VfsStat(fd)

SpecVfs == InitVfsHost /\ [][NextVfs]_vars

\* The calls of the VFS that resolve a guest path under the lock.
NextVfsPaths ==
    \/ VfsMount(MountPointA, HostRootA)
    \/ VfsMount(MountPointO, HostRootO)
    \/ VfsUnmount(MountPointO)
    \/ \E ps4Path \in OpenPaths, flags \in OpenFlagSets, hostOk \in BOOLEAN,
          outcome \in RelockOutcomes : VfsOpen(ps4Path, flags, hostOk, outcome)
    \/ \E ps4Path \in OpenPaths, outcome \in RelockOutcomes :
          VfsStatPath(ps4Path, outcome)
    \/ \E fd \in FdArgs : VfsClose(fd)

SpecVfsPaths == InitVfsHost /\ [][NextVfsPaths]_vars

InitResolve ==
    /\ InitCore /\ InitThreads /\ InitDispatcher /\ InitInput
    /\ InitHistory /\ InitSystem /\ InitGraphics /\ InitPkg /\ InitLoader /\ InitSnapshot /\ InitAudioPorts /\ InitMemReq
    /\ cpuAlive = FALSE
    /\ cpu_m_state = "Stopped"
    /\ m_shouldStop = FALSE
    /\ m_instructionCount = 0
    /\ m_context = ContextReset
    /\ arena = << >>
    /\ audio_initialized = FALSE
    /\ m_mountPoints \in MountTables
    /\ m_openFiles = << >>
    /\ m_nextFd = FIRST_FD
    /\ vfsMutex = "free"
    /\ lastVfs = [op |-> "none", fd |-> 0, ret |-> 0, threw |-> FALSE]
    /\ closedFds = {}
    /\ hostFiles = {}
    /\ resolveIn \in GuestPaths
    /\ resolveOut = << >>

SpecResolve == InitResolve /\ [][Resolve]_vars

\* The CPU thread is scheduled, and a join returns once its thread has ended.
\* step() is total, so CpuThreadStep is enabled exactly when
\* CpuThreadStepEnabled holds, and it is the only action that moves the
\* thread from "step" to "loop_test": fairness of the call is stated on that
\* move.
CpuThreadStepTaken == CpuThreadStepEnabled /\ threadPc' = "loop_test"

FairSpecCore ==
    /\ SpecCore
    /\ WF_vars(CpuThreadLoopTest)
    /\ WF_threadPc(CpuThreadStepTaken)
    /\ WF_vars(StopJoin)

\* The render queue with its two threads.
NextQueue ==
    \/ \E cmds \in PushArgs : Push(cmds)
    \/ EndFrame
    \/ PushNotify
    \/ PopAll
    \/ Clear
    \/ WaitBegin
    \/ \E spurious \in BOOLEAN : WaitWake(spurious)
    \/ WaitTimeout

SpecQueue == Init /\ [][NextQueue]_vars

\* The pushing thread finishes its push, and a waiter that has been
\* notified runs.  Nothing makes a timeout or a spurious wake-up happen.
FairSpecQueue ==
    /\ SpecQueue
    /\ WF_vars(PushNotify)
    /\ WF_vars(WaitWake(FALSE))

\* The GNM driver parsing the guest's command buffers on the CPU thread,
\* the render thread draining the queue.
InitGnm ==
    /\ InitCore /\ InitThreads /\ InitDispatcher /\ InitInput
    /\ InitHistory /\ InitVfs /\ InitSystem /\ InitGraphics /\ InitPkg /\ InitLoader /\ InitSnapshot /\ InitAudioPorts /\ InitMemReq
    /\ cpuAlive = TRUE
    /\ cpu_m_state = "Stopped"
    /\ m_shouldStop = FALSE
    /\ m_instructionCount = 0
    /\ m_context = ContextReset
    /\ arena = GfxArena
    /\ audio_initialized = FALSE

NextGnm ==
    \/ \E b \in Buffers : GnmSubmit(b)
    \/ GnmPacket
    \/ GnmReturn
    \/ PushNotify
    \/ PopAll
    \/ SysSubmitDone

SpecGnm == InitGnm /\ [][NextGnm]_vars

\* One memory access with a drawn address and length.
InitMemory ==
    /\ InitCore /\ InitThreads /\ InitDispatcher /\ InitInput
    /\ InitHistory /\ InitVfs /\ InitSystem /\ InitGraphics /\ InitPkg /\ InitLoader /\ InitSnapshot /\ InitAudioPorts
    /\ cpuAlive = TRUE
    /\ cpu_m_state = "Stopped"
    /\ m_shouldStop = FALSE
    /\ m_instructionCount = 0
    /\ m_context = ContextReset
    /\ arena = << >>
    /\ audio_initialized = FALSE
    /\ memReq \in [va : AccessAddrs, n : AccessSizes]
    /\ memOut = NoAccess
    /\ arenaBytes \in { MEMORY_SIZE, FALLBACK_SIZE }

NextMem ==
    \/ MemTypedRead
    \/ MemTypedWrite
    \/ MemReadBlock
    \/ MemWriteBlock
    \/ MemFill
    \/ MemIsValid

SpecMem == InitMemory /\ [][NextMem]_vars

\* The initialized core with a running interpreter: the guest's SYSCALL
\* instruction is at USER_BASE.
InitGuest ==
    /\ core_m_state = "Running"
    /\ m_initialized = TRUE
    /\ m_gameLoaded = TRUE
    /\ m_gamePath = "guest"
    /\ m_entryPoint = USER_BASE
    /\ m_cpuRunning = TRUE
    /\ InitThreads /\ InitDispatcher /\ InitInput
    /\ InitHistory /\ InitVfs /\ InitSystem /\ InitGraphics /\ InitPkg /\ InitLoader /\ InitSnapshot /\ InitAudioPorts /\ InitMemReq
    /\ cpuAlive = TRUE
    /\ cpu_m_state = "Running"
    /\ m_shouldStop = FALSE
    /\ m_instructionCount = 0
    /\ audio_initialized = TRUE

InitDispatch ==
    /\ InitGuest
    /\ m_context = ContextReset
    /\ arena = MemWrite(<< >>, USER_BASE, << 15, 5 >>)

NextDispatch ==
    \/ \E num \in SyscallNumbers, rdi \in SyscallRdi, rsi \in SyscallRsi :
          GuestLoads(num, rdi, rsi)
    \/ GuestStep

SpecDispatch == InitDispatch /\ [][NextDispatch]_vars

\* One instruction of the decoded subset, with registers in mid-run.
InitDecode ==
    /\ InitGuest
    /\ m_context = DecodeContext
    /\ \E prefix \in DecodePrefixes, opcode \in DecodeOpcodes :
          arena = MemWrite(MemWrite(<< >>, StackAddr, StackBytes),
                           USER_BASE, prefix \o << opcode >> \o Imm)

NextDecode == GuestStep

SpecDecode == InitDecode /\ [][NextDecode]_vars

\* A loaded package, its executable extracted.
InitPackage ==
    /\ InitCore /\ InitThreads /\ InitDispatcher /\ InitInput
    /\ InitHistory /\ InitVfs /\ InitSystem /\ InitGraphics /\ InitMemReq
    /\ InitLoader /\ InitSnapshot /\ InitAudioPorts
    /\ cpuAlive = FALSE
    /\ cpu_m_state = "Stopped"
    /\ m_shouldStop = FALSE
    /\ m_instructionCount = 0
    /\ m_context = ContextReset
    /\ arena = << >>
    /\ audio_initialized = FALSE
    /\ m_entries \in EntryTables
    /\ fileSize \in FileSizes
    /\ extracted = NoExtract

NextPkg == ExtractEboot

SpecPkg == InitPackage /\ [][NextPkg]_vars

\* loadElf at a PT_LOAD program header of the file it has read, the arena
\* allocated at its full size.
InitSegment ==
    /\ InitCore /\ InitThreads /\ InitDispatcher /\ InitInput
    /\ InitHistory /\ InitVfs /\ InitSystem /\ InitGraphics /\ InitMemReq
    /\ InitPkg /\ InitSnapshot /\ InitAudioPorts
    /\ cpuAlive = FALSE
    /\ cpu_m_state = "Stopped"
    /\ m_shouldStop = FALSE
    /\ m_instructionCount = 0
    /\ m_context = ContextReset
    /\ arena = << >>
    /\ audio_initialized = FALSE
    /\ elfPhdr \in { Phdr(o, f, v, m) : o \in PhdrOffsets, f \in PhdrFileSizes,
                                        v \in PhdrAddrs, m \in PhdrMemSizes }
    /\ elfSize \in ElfSizes
    /\ segOut = NoSegment

NextSegment == LoadHeader

SpecSegment == InitSegment /\ [][NextSegment]_vars

\* The CPU thread at an instruction, the UI thread about to ask for a
\* snapshot of the context.
InitUnderSnapshot ==
    /\ InitGuest
    /\ m_context = DecodeContext
    /\ \E code \in SnapshotCode :
          arena = MemWrite(MemWrite(<< >>, StackAddr, StackBytes),
                           USER_BASE, code)

NextSnapshot ==
    \/ StepEnter
    \/ StepLeave
    \/ GetCpuSnapshot

SpecSnapshot == InitUnderSnapshot /\ [][NextSnapshot]_vars

\* The audio manager after construction, called from one thread.
InitAudio ==
    /\ InitCore /\ InitThreads /\ InitDispatcher /\ InitInput
    /\ InitHistory /\ InitVfs /\ InitSystem /\ InitGraphics /\ InitMemReq
    /\ InitPkg /\ InitLoader /\ InitSnapshot /\ InitAudioPorts
    /\ cpuAlive = FALSE
    /\ cpu_m_state = "Stopped"
    /\ m_shouldStop = FALSE
    /\ m_instructionCount = 0
    /\ m_context = ContextReset
    /\ arena = << >>
    /\ audio_initialized = FALSE

NextAudio ==
    \/ AudioInit
    \/ AudioShutdown
    \/ \E sampleCount \in { 0, 256, 512 },
          outcome \in InitUnderLockOutcomes :
            AudioOpenPort(sampleCount, outcome)
    \/ \E handle \in 1..MaxHandles : AudioClosePort(handle)

SpecAudio == InitAudio /\ [][NextAudio]_vars

(***************************************************************************)
(* Part 7.  Properties.                                                    *)
(***************************************************************************)
ThreadLive == threadPc \in {"loop_test", "step"}

\* the guest has left the bytes the model follows
GuestOutsideWindow == ~InCodeWindow(m_context.RIP)

BannerLogged == \E l \in syscalls.kernelLog : StartsWith(l.text, Banner)

BiosRunning ==
    /\ m_gamePath = "[Internal BIOS]"
    /\ core_m_state = "Running"
    /\ ThreadLive
    /\ ~crashed

\* C1: once the internal BIOS is loaded and run() has started the CPU thread,
\* the thread's execution of the BIOS eventually puts the banner line
\* "WeaR-emu Internal BIOS v1.0" in the log (unless the run is ended first).
C1_BiosLogsBanner ==
    BiosRunning ~> (BannerLogged \/ ~BiosRunning \/ GuestOutsideWindow)

\* C2: while the core is Paused after pause() returned true, the CPU thread
\* executes at most the one instruction that was in flight.
C2_PausedThreadIdles == core_m_state = "Paused" => stepsSincePause <= 1

StopWaiting == uiPc = "stop_join" /\ uiCont = "stop"

\* C3: every stop() that finds the core Running or Paused terminates, and
\* when it returns the running flag is clear, the CPU thread is joined, the
\* interpreter and the input state are reset, no game is loaded and the
\* state is Idle.
C3_StopTerminates ==
    /\ [][(StopWaiting /\ uiPc' = "idle") =>
             /\ ~m_cpuRunning'
             /\ threadPc' = "none"
             /\ m_context' = ContextReset
             /\ cpu_m_state' = "Stopped"
             /\ ~m_shouldStop'
             /\ m_instructionCount' = 0
             /\ pad' = PadReset
             /\ ~m_gameLoaded'
             /\ m_entryPoint' = Zero64
             /\ core_m_state' = "Idle"
             /\ lastCall' = Call("stop", "true", Zero64)]_vars
    /\ [](StopWaiting => ~m_cpuRunning /\ core_m_state = "Stopping")
    /\ (StopWaiting ~> uiPc = "idle")

\* a stop() has returned true after the CPU thread had executed guest
\* system calls and the pad had been touched
C3_Witness ==
    /\ lastCall = Call("stop", "true", Zero64)
    /\ syscalls.m_totalCalls > 0
    /\ core_m_state = "Idle"

\* C4: once a step has ended in a halt or a fault (the CPU is Halted or
\* Faulted) the CPU thread executes no further guest instruction.
C4_NoStepAfterHalt ==
    [][~(/\ cpuAlive
         /\ cpu_m_state \in {"Halted", "Faulted"}
         /\ threadPc = "step"
         /\ threadPc' = "loop_test")]_vars

\* C5: after a guest-memory fault while Running, the emulator leaves the
\* Running state (for Error) instead of staying in it for ever.
C5_FaultEndsRunning ==
    (cpu_m_state = "Faulted" /\ core_m_state = "Running" /\ ~crashed)
        ~> (core_m_state # "Running" \/ GuestOutsideWindow)

\* C8: a run() made when no game is loaded, or in a state other than Idle
\* or Paused, returns false, spawns no thread and changes nothing.
C8_RunRefuses ==
    [][(lastCall'.op = "run" /\ ~(m_gameLoaded /\ core_m_state \in {"Idle", "Paused"}))
          => /\ lastCall'.ret = "false"
             /\ UNCHANGED << coreVars, threadPc, uiPc, uiCont, crashed, cpuVars,
                             pad, audio_initialized, m_mountPoints >>]_vars

\* run() has just refused on an initialized, idle core with no game loaded
C8_Witness ==
    /\ lastCall = Call("run", "false", Zero64)
    /\ m_initialized
    /\ core_m_state = "Idle"
    /\ ~m_gameLoaded


\* C6: once stop() has been called on a CPU whose thread is entering or
\* executing runLoop(), runLoop() returns: the stop is not lost, and the
\* join that follows it comes back.
C6_StopNeverLost == stopRequested ~> (~stopRequested \/ GuestOutsideWindow)

\* a step of a controller call (stop, reset, shutdown, boot, pause, ...):
\* all of them move the controller's position except the calls that
\* complete at once, and of those only resume() and initialize() write the
\* CPU state, never from Halted or Faulted
ControllerStep == uiPc' # uiPc \/ uiCont' # uiCont

\* C7: a CPU that is Halted or Faulted keeps that state until reset(): no
\* step of the CPU thread itself takes it out of Halted or Faulted.  (The
\* claim also rules out stop(); the formula does not rely on that.)
C7_TerminalUntilReset ==
    [][(cpu_m_state \in {"Halted", "Faulted"} /\ ~ControllerStep)
          => cpu_m_state' = cpu_m_state]_vars


\* the descriptors openFile has returned so far
OpenedFds == FIRST_FD .. (m_nextFd - 1)

\* C9: a close of a descriptor that open returned (fd >= 10) answers 0
\* unless the descriptor was closed before, and every read, write, seek or
\* stat_fd made on a descriptor after its close answers EBADF.
C9_ClosedFdIsBad ==
    /\ (lastVfs.op = "close" /\ lastVfs.fd \in OpenedFds)
          => (lastVfs.ret = SCE_OK \/ lastVfs.fd \in closedFds)
    /\ (lastVfs.op \in {"read", "write", "seek", "stat_fd"}
          /\ lastVfs.fd \in closedFds)
          => lastVfs.ret = SCE_ERROR_EBADF
    /\ closedFds \subseteq OpenedFds
    /\ DOMAIN m_openFiles \subseteq OpenedFds \ closedFds

\* two descriptors were opened, the first was closed, and a stat_fd on it
\* has just answered EBADF while the second is still open
C9_Witness ==
    /\ lastVfs = [op |-> "stat_fd", fd |-> FIRST_FD,
                  ret |-> SCE_ERROR_EBADF, threw |-> FALSE]
    /\ closedFds = { FIRST_FD }
    /\ DOMAIN m_openFiles = { FIRST_FD + 1 }

\* the host root of the mount that resolvePath matched for resolveIn
MatchedHostRoot ==
    m_mountPoints[bestMatch(normalizePath(resolveIn), m_mountPoints)]

\* C10: a guest path that resolvePath accepts has its canonical host path
\* inside the host root of the mount that matched it.
C10_EscapeRejected ==
    resolveOut # << >> =>
        ElementsPrefix(MatchedHostRoot, weakly_canonical(resolveOut))

\* C11: the descriptor counter starts at 10 and moves only in a successful
\* open, by one, and that open returns the value the counter had: no
\* descriptor is returned twice.  An open that fails (the escape attempt
\* among them) returns ENOENT or EACCES, and leaves the counter and the
\* table of open files as they were.
C11_FdCounterMonotonic ==
    /\ [](m_nextFd >= FIRST_FD)
    /\ [][/\ m_nextFd' \in {m_nextFd, m_nextFd + 1}
          /\ m_nextFd' = m_nextFd + 1 =>
                /\ lastVfs' = [op |-> "open", fd |-> 0, ret |-> m_nextFd,
                               threw |-> FALSE]
                /\ m_nextFd \notin DOMAIN m_openFiles \cup closedFds
                /\ DOMAIN m_openFiles' = DOMAIN m_openFiles \cup {m_nextFd}
          /\ (resolveIn' # resolveIn \/ lastVfs'.op = "open") =>
                \/ m_nextFd' = m_nextFd + 1
                \/ /\ m_nextFd' = m_nextFd
                   /\ m_openFiles' = m_openFiles
                   /\ \/ lastVfs' = lastVfs
                      \/ lastVfs'.threw
                      \/ lastVfs'.ret \in {SCE_ERROR_ENOENT, SCE_ERROR_EACCES}
          /\ (lastVfs'.op = "open" /\ resolveIn' = PathEscape
                /\ vfsMutex' = "free") =>
                /\ lastVfs'.threw \/ lastVfs'.ret = SCE_ERROR_ENOENT
                /\ UNCHANGED << m_nextFd, m_openFiles >>]_vars

\* the escape attempt has failed with ENOENT after one descriptor had been
\* handed out, and the counter still stands one past that descriptor
C11_Witness ==
    /\ resolveIn = PathEscape
    /\ MountPointA \in DOMAIN m_mountPoints
    /\ lastVfs = [op |-> "open", fd |-> 0, ret |-> SCE_ERROR_ENOENT,
                  threw |-> FALSE]
    /\ m_nextFd = FIRST_FD + 1
    /\ DOMAIN m_openFiles = {FIRST_FD}


\* C12.  The original statement: once endFrame() has returned, the next
\* popAll() returns a sequence whose last element is an EndFrame marker.
\* (latest call was a popAll that found an endFrame() returned since the
\* popAll before it)
C12_EndFrameLast ==
    (lastGfx.op = "pop_all" /\ lastGfx.after.returned) =>
        /\ lastGfx.popped # << >>
        /\ lastGfx.popped[Len(lastGfx.popped)].type = "EndFrame"

\* C12, amended.  Once endFrame() has returned, the next popAll() returns a
\* sequence whose last element is an EndFrame marker, provided no other
\* push, clear or popAll came between the marker's push and that popAll.
C12_EndFrameLastUndisturbed ==
    (/\ lastGfx.op = "pop_all"
     /\ lastGfx.after.returned
     /\ ~lastGfx.after.disturbed) =>
        /\ lastGfx.popped # << >>
        /\ lastGfx.popped[Len(lastGfx.popped)].type = "EndFrame"

\* a popAll right after an endFrame() that followed other pushes
C12_Witness ==
    /\ lastGfx.op = "pop_all"
    /\ lastGfx.after.returned
    /\ ~lastGfx.after.disturbed
    /\ Len(lastGfx.popped) >= 2
    /\ lastGfx.popped[Len(lastGfx.popped)].type = "EndFrame"


\* C13.  Without a clear, whatever the interleaving of the CPU thread's
\* pushes with the render thread's popAll calls, the results of the popAll
\* calls one after the other, followed by what the queue still holds, are
\* the pushed commands in the order of their pushes, each exactly once.
C13_FifoExactlyOnce ==
    ~queueCleared => poppedLog \o rq_m_queue = pushedLog

\* a popAll came between the two commands one submit emitted: the draw
\* has been delivered, the dispatch is still queued
C13_Witness ==
    /\ ~queueCleared
    /\ Len(poppedLog) = 1
    /\ poppedLog[1].type = "DrawAuto"
    /\ Len(rq_m_queue) = 1
    /\ rq_m_queue[1].type = "ComputeDispatch"
    /\ lastGfx.op = "pop_all"


\* C14.  waitForCommands returns only when the queue holds commands or its
\* timeout has expired, and its result is true exactly when the queue holds
\* commands at the return; a consumer blocked in it while the queue holds
\* commands has a wake-up delivered or on its way, and a push made while
\* it waits brings it back (no wake-up is lost).
C14_WaitForCommands ==
    /\ [][(lastGfx' # lastGfx /\ lastGfx'.op = "wait") =>
             /\ lastGfx'.ok <=> (rq_m_queue' # << >>)
             /\ lastGfx'.ok \/ lastGfx'.timedOut
             /\ consumerPc' = "idle"]_vars
    /\ []((consumerPc = "waiting" /\ rq_m_queue # << >>) =>
             (notified \/ producerPc = "notify"))
    /\ (consumerPc = "waiting" /\ rq_m_queue # << >>) ~>
             (consumerPc = "idle" \/ rq_m_queue = << >>)

\* the consumer is blocked, a push has filled the queue and its notify_one
\* has reached the consumer
C14_Witness ==
    /\ consumerPc = "waiting"
    /\ notified
    /\ producerPc = "idle"
    /\ rq_m_queue # << >>
    /\ lastGfx.op = "push"


\* C15.  Every sceGnmSubmitDone syscall (614) pushes an EndFrame marker on
\* the render queue.
C15_SubmitDonePushesEndFrame ==
    [][(lastGfx' # lastGfx /\ lastGfx'.op = "submit_done") =>
          /\ Len(pushedLog') = Len(pushedLog) + 1
          /\ pushedLog'[Len(pushedLog')].type = "EndFrame"]_vars

\* C16.  The parser never nests INDIRECT_BUFFER deeper than 16 levels: the
\* activations of processCommandBuffer are the submitted buffer's and at
\* most 16 nested ones.
C16_NestingCapped == Len(gnmStack) - 1 <= 16

\* the buffers made of Type-3 packets whose payload stays inside them
WellFormedBuffers ==
    { BufDraw, BufScene, BufDispatch3, BufSelf, BufNest, BufIndexed }

\* where the packet begins that an activation is at: while its handler
\* runs a nested buffer the header has been consumed already
PacketStart(f) == IF f.pending > 0 THEN f.offset - 1 ELSE f.offset

IsDraw(cmd) == cmd.type \in { "Draw", "DrawAuto" }

\* the parser is in the buffer [header(0x2D, count=1), 128, 0] with the
\* tracked state of a new parser
InBufDraw ==
    /\ gnmStack # << >>
    /\ Top.bufferAddr = BufDraw.addr
    /\ Top.sizeInDwords = Len(BufDraw.words)
    /\ gnm_m_state = GpuStateReset

\* C18.  Parsing the buffer [header(0x2D, count=1), 128, 0] with the default
\* tracked state emits exactly one draw command, with vertexCount 128 and
\* instanceCount 1: the packet's step puts it at the tail of the render
\* queue, whose size grows by one (to 1 from empty), and nothing else is
\* pushed until the parser has returned.
C18_DrawIndexAutoEmitsOneDraw ==
    [][InBufDraw =>
          IF Top.offset = 0 /\ gnmStack' # gnmStack
          THEN /\ Len(pushedLog') = Len(pushedLog) + 1
               /\ Len(rq_m_queue') = Len(rq_m_queue) + 1
               /\ rq_m_queue'[Len(rq_m_queue')] = pushedLog'[Len(pushedLog')]
               /\ IsDraw(pushedLog'[Len(pushedLog')])
               /\ pushedLog'[Len(pushedLog')].vertexCount = W(128)
               /\ pushedLog'[Len(pushedLog')].instanceCount = W(1)
               /\ gnmStack' = SetTop([Top EXCEPT !.offset = 3])
          ELSE pushedLog' = pushedLog]_vars

\* the buffer has been parsed from an empty queue: one draw is queued
C18_Witness ==
    /\ InBufDraw
    /\ Len(gnmStack) = 1
    /\ Top.offset = 3
    /\ pushedLog = rq_m_queue
    /\ Len(rq_m_queue) = 1
    /\ IsDraw(rq_m_queue[1])
    /\ rq_m_queue[1].vertexCount = W(128)
    /\ rq_m_queue[1].instanceCount = W(1)

\* the packet the parser is about to read is a DISPATCH_DIRECT whose
\* payload holds at least the three group counts and lies in the buffer
AtDispatchDirect ==
    /\ gnmStack # << >>
    /\ ~Top.stopped
    /\ Top.offset < Top.sizeInDwords
    /\ MemReadOk(WordAddr(Top.bufferAddr, Top.offset), 4)
    /\ LET raw == MemRead(arena, WordAddr(Top.bufferAddr, Top.offset), 4)
       IN  /\ isType3(raw)
           /\ HeaderOpcode(raw) = IT_DISPATCH_DIRECT
           /\ HeaderCount(raw) + 1 >= 3
           /\ Top.offset + 1 + HeaderCount(raw) + 1 <= Top.sizeInDwords

\* C19.  Every DISPATCH_DIRECT packet whose payload carries the three group
\* counts emits exactly one ComputeDispatch with payload[0], payload[1],
\* payload[2] as its group counts.
C19_DispatchDirectEmits ==
    [][(AtDispatchDirect /\ gnmStack' # gnmStack) =>
          /\ Len(pushedLog') = Len(pushedLog) + 1
          /\ LET cmd == pushedLog'[Len(pushedLog')]
                 word(i) == MemRead(arena, WordAddr(Top.bufferAddr,
                                                    Top.offset + i), 4)
             IN  /\ cmd.type = "ComputeDispatch"
                 /\ cmd.groupCountX = word(1)
                 /\ cmd.groupCountY = word(2)
                 /\ cmd.groupCountZ = word(3)]_vars


\* the end offset p + n of the request, taken as an unbounded integer,
\* lies past the 8 GiB of the arena
EndPastArena ==
    PastEnd(translateAddress(memReq.va), memReq.n, MEMORY_SIZE)

\* C20.  Every typed or block access whose translated end offset, as an
\* unbounded integer, exceeds the arena size fails with OutOfBounds, and
\* isValidAddress answers false for it, before any byte is dereferenced.
C20_EndPastArenaFails ==
    (memOut.op # "none" /\ EndPastArena) =>
        memOut.result = IF memOut.op = "isValidAddress" THEN "false"
                        ELSE "OutOfBounds"


\* C21.  With the arena fallen back to 512 MiB, no access that is let
\* through (and no range isValidAddress calls valid) reaches a byte outside
\* the allocated arena.
C21_FallbackStaysInside ==
    arenaBytes = FALLBACK_SIZE =>
        /\ memOut.result \notin { "crash", "overrun" }
        /\ (memOut.op = "isValidAddress" /\ memOut.result = "true") =>
              ~PastEnd(translateAddress(memReq.va), memReq.n, arenaBytes)


\* the interpreter is about to execute the guest's SYSCALL
AtSyscall ==
    /\ cpu_m_state = "Running"
    /\ m_context.RIP = USER_BASE
    /\ MemRead(arena, USER_BASE, 2) = << 15, 5 >>

\* the step taken is the dispatch of the number n
Dispatches(n) ==
    /\ AtSyscall
    /\ m_context.GPR[RAX] = U64Of(n)
    /\ m_context' # m_context

\* numbers of the minimum list of registered handlers
MinimumNumbers ==
    { 1, 3, 4, 5, 6, 10, 20, 24, 54, 73, 74, 188, 189, 240, 272, 477, 478,
      594, 602, 618, 621, 611, 612, 572, 573, 570, 571, 575, 591, 614, 626 }
        \cup (495..502)

\* C22.  In the initialized core every number of the minimum list has a
\* handler: its dispatch is not counted as unimplemented and writes no
\* "Unimplemented syscall" line.
C22_MinimumListRegistered ==
    [][\A n \in MinimumNumbers \cap SyscallNumbers :
          Dispatches(n) =>
             /\ syscalls'.m_unimplementedCalls = syscalls.m_unimplementedCalls
             /\ syscalls'.unimplementedLines = syscalls.unimplementedLines]_vars

\* C23.  A number with no handler is counted in m_unimplementedCalls, leaves
\* 0 in RAX, and has at most one "Unimplemented syscall" line in the log
\* however often it is dispatched.
C23_UnimplementedLoggedOnce ==
    /\ [][\A n \in SyscallNumbers \ HandlerNumbers :
             Dispatches(n) =>
                /\ syscalls'.m_unimplementedCalls =
                      syscalls.m_unimplementedCalls + 1
                /\ m_context'.GPR[RAX] = Zero64]_vars
    /\ [](\A num \in DOMAIN syscalls.unimplementedLines :
             syscalls.unimplementedLines[num] <= 1)

\* C24.  No exception leaves a syscall handler: the interpreter is not
\* Faulted by a SYSCALL, and a handler given a pointer whose access is out
\* of bounds returns EFAULT in RAX.
C24_HandlersCatch ==
    [][(AtSyscall /\ m_context' # m_context) =>
          /\ cpu_m_state' # "Faulted"
          /\ (/\ m_context.GPR[RAX] = U64Of(SYS_sceKernelGetCpuTemperature)
              /\ m_context.GPR[RDI] # Zero64
              /\ ~MemReadOk(m_context.GPR[RDI], 4)) =>
                m_context'.GPR[RAX] = EFAULT64]_vars

\* C25.  Before any input event, the guest's scePadReadState(0, buf) leaves
\* 0 in RAX and 128, 128, 128, 128 in the bytes buf+4 .. buf+7.
C25_PadReadStateCentered ==
    [][(/\ Dispatches(SYS_scePadReadState)
        /\ pad = PadReset
        /\ m_context.GPR[RDI] = Zero64
        /\ m_context.GPR[RSI] = PadBuf) =>
          /\ m_context'.GPR[RAX] = Zero64
          /\ MemRead(arena', Add64(PadBuf, U64Of(4)), 4)
                = << 128, 128, 128, 128 >>]_vars


\* the instruction bytes the interpreter is about to decode at USER_BASE
AtDecode == cpu_m_state = "Running" /\ m_context.RIP = USER_BASE
DecodedREX ==
    LET b == MemRead(arena, USER_BASE, 1)[1]
    IN  IF b \div 16 = 4 THEN b ELSE 0
DecodedOpcode ==
    IF DecodedREX # 0 THEN MemRead(arena, Add64(USER_BASE, U64Of(1)), 1)[1]
    ELSE MemRead(arena, USER_BASE, 1)[1]
DecodedImm(n) ==
    MemRead(arena, Add64(USER_BASE, U64Of(IF DecodedREX # 0 THEN 2 ELSE 1)), n)

\* the register an x86-64 instruction encodes as number n (0..7)
X86Register(n) == << RAX, RCX, RDX, RBX, RSP, RBP, RSI, RDI >>[n + 1]

\* C26.  The register number n of MOV 0xB8+n, PUSH 0x50+n and POP 0x58+n is
\* read in x86 order: MOV with REX.W loads the immediate into that register
\* (48 BE imm64 loads RSI, the dispatcher's second argument), PUSH stores
\* that register's value, POP loads that register from the stack.
C26_X86RegisterOrder ==
    [][(AtDecode /\ m_context' # m_context /\ DecodedREX \in { 0, 72 }) =>
          /\ (DecodedOpcode \in 184..191 /\ DecodedREX = 72) =>
                m_context'.GPR[X86Register(DecodedOpcode - 184)]
                   = FromBytes(DecodedImm(8))
          /\ (DecodedOpcode \in (80..87) \ { 84 }) =>
                MemRead(arena', m_context'.GPR[RSP], 8)
                   = ToBytes(m_context.GPR[X86Register(DecodedOpcode - 80)])
          /\ (DecodedOpcode \in (88..95) \ { 92 }) =>
                m_context'.GPR[X86Register(DecodedOpcode - 88)]
                   = FromBytes(MemRead(arena, m_context.GPR[RSP], 8))]_vars

\* C27.  For opcodes 0xB8..0xBF the destination index is (opcode - 0xB8) + 8
\* when REX.B is set and (opcode - 0xB8) otherwise, in the imm64 form
\* (REX.W) and in the zero-extended imm32 form alike.
C27_RexBExtendsDestination ==
    [][(AtDecode /\ m_context' # m_context /\ DecodedOpcode \in 184..191) =>
          LET dest == (DecodedOpcode - 184)
                         + (IF DecodedREX % 2 = 1 THEN 8 ELSE 0)
          IN  m_context'.GPR[dest] =
                 IF (DecodedREX \div 8) % 2 = 1
                 THEN FromBytes(DecodedImm(8))
                 ELSE ZeroExtend32(DecodedImm(4))]_vars


\* C28.  initialize() on a core not yet initialized either ends in Idle with
\* the core initialized (returning true), or, on any failure, the arena
\* allocation failing included, ends in Error and returns false: no
\* exception leaves it and the state is not left at Booting.
C28_InitializeIdleOrError ==
    [][\A allocOk \in BOOLEAN :
          (~m_initialized /\ core_m_state = "Idle" /\ Initialize(allocOk)) =>
             IF allocOk
             THEN m_initialized' /\ core_m_state' = "Idle"
             ELSE /\ ~m_initialized'
                  /\ core_m_state' = "Error"
                  /\ lastCall'.ret # "throws"]_vars

\* C29.  An exception raised while load_game loads the file (a bounds fault
\* in the copy of a segment) is caught inside load_game: the state becomes
\* Error and the call returns 0.
C29_LoadGameCatches ==
    [][\A file \in LoadFiles :
          (/\ m_initialized /\ core_m_state = "Idle"
           /\ loadElf(file, arena).threw
           /\ LoadGame(file)) =>
             /\ core_m_state' = "Error"
             /\ lastCall'.ret # "throws"]_vars


\* entry 0x1000 is absent, or the first entry of that id cannot be
\* extracted: offset not below the file size, no bytes, or more than 2 GiB
EbootAbsentOrInvalid ==
    LET i == findEntry(m_entries, PKG_ENTRY_ID_EBOOT, 1)
    IN  \/ i = 0
        \/ ~LT64(m_entries[i].dataOffset, fileSize)
        \/ m_entries[i].dataSize = Zero64
        \/ LT64(TWO_GIB, effectiveSize(m_entries[i], fileSize))

\* the entries whose offset is below the file size and whose effective size
\* is positive, and those of them with the largest effective size
Candidates ==
    { i \in 1..Len(m_entries) :
         /\ LT64(m_entries[i].dataOffset, fileSize)
         /\ effectiveSize(m_entries[i], fileSize) # Zero64 }
LargestCandidates ==
    { i \in Candidates :
         \A j \in Candidates :
            ~LT64(effectiveSize(m_entries[i], fileSize),
                  effectiveSize(m_entries[j], fileSize)) }

\* C30.  When entry 0x1000 is absent or invalid, extraction returns the
\* payload of an entry that has, among the entries whose offset is below
\* the file size, the largest positive effective size
\* min(claimed size, file size - offset); a largest effective size above
\* 2 GiB is rejected instead.  For entries 0x1002, 0x1003, 0x1004 of sizes
\* 10, 4096, 128 that is the payload of 0x1003.
C30_FallbackReturnsLargest ==
    (extracted # NoExtract /\ EbootAbsentOrInvalid /\ Candidates # {}) =>
        \E i \in LargestCandidates :
           LET effective == effectiveSize(m_entries[i], fileSize)
           IN  IF LT64(TWO_GIB, effective) THEN ~extracted.ok
               ELSE extracted = Payload(m_entries[i].dataOffset, effective)

\* C31: a LOAD segment is copied into guest memory only if offset +
\* file_size <= input_size and [virtual_address, virtual_address +
\* memory_size) lies within guest memory, both sums taken as unbounded
\* integers; the loader never reads bytes beyond the end of the input.
C31_CopyOnlyInsideInput ==
    segOut.reads # {} =>
        /\ ~PastEnd(elfPhdr.p_offset, elfPhdr.p_filesz, elfSize)
        /\ ~PastEnd(translateAddress(elfPhdr.p_vaddr), elfPhdr.p_memsz, MEMORY_SIZE)
        /\ \A r \in segOut.reads : ~PastEnd(r.at, r.n, elfSize)

\* the bytes [w.at, w.at + w.n) lie inside [base, base + len), the sums
\* taken as unbounded integers
InsideRange(w, base, len) ==
    ~LT64(w.at, base) /\ ~PastEnd(Sub64(w.at, base), w.n, len)

\* C39: for every LOAD segment the loader accepts, guest memory is written
\* only inside [virtual_address, virtual_address + memory_size), also when
\* the header's file_size exceeds its memory_size.
C39_WritesInsideSegment ==
    \A w \in segOut.writes :
        InsideRange(w, translateAddress(elfPhdr.p_vaddr), elfPhdr.p_memsz)

\* C32: a context snapshot asked for by another thread while the CPU thread
\* is stepping is a consistent copy: it equals the context as it stood at
\* an instruction boundary, before or after the instruction under way.
C32_SnapshotAtBoundary ==
    cpuSnapshot.taken =>
        cpuSnapshot.ctx \in { cpuSnapshot.before, cpuSnapshot.after }

\* a guest CPU thread is live: spawned by run() and not yet returned from
\* cpuThreadMain
CpuThreadLive == threadPc \notin { "none", "exited" }

\* C33: while a guest CPU thread is live no other thread accesses the arena
\* or mutates the CPU context: load_game and load_internal_bios never write
\* them while the CPU thread is stepping.
C33_LoadsLeaveLiveGuestAlone ==
    [][(CpuThreadLive /\ (LoadInternalBios \/ \E file \in GameFiles :
                                                 LoadGame(file)))
          => (arena' = arena /\ m_context' = m_context)]_vars

\* C34: whenever the emulator state is Idle no CPU thread is live and the
\* running flag is false, so that stop() can reach and end every live CPU
\* thread.
C34_IdleMeansNoThread ==
    core_m_state = "Idle" => (~CpuThreadLive /\ ~m_cpuRunning)

\* C35: every VFS open and stat_path call returns: no thread tries to
\* acquire the non-recursive VFS mutex while it holds it, so no call blocks
\* for ever on the mutex and none leaves through an exception of the lock.
C35_PathCallsReturn ==
    vfsMutex # "deadlocked" /\ ~lastVfs.threw

\* C36: opening an audio port returns a handle also when the audio manager
\* is not initialized (before init, after shutdown): the lazy
\* initialization does not lock the registry mutex the opening thread
\* holds, so the call neither blocks on it nor leaves through an exception.
C36_OpenPortReturns ==
    audioMutex # "deadlocked" /\ ~lastAudio.threw

\* C37: pause() moves the CPU state only from Running to Paused, and does
\* so atomically: whatever a HLT step, a faulting step, stop() or the end
\* of runLoop does in between, a state of Stopped, Halted or Faulted is
\* never overwritten by Paused.
C37_PauseOnlyFromRunning ==
    [][cpu_m_state' = "Paused" => cpu_m_state \in { "Running", "Paused" }]_vars

\* the EndFrame markers the consumer has popped so far
EndFramesPopped ==
    Cardinality({ i \in 1..Len(poppedLog) : poppedLog[i].type = "EndFrame" })

\* C38 as stated: at every instant the frame counter is at least the number
\* of EndFrame markers the consumer has popped.
C38_FrameCountedBeforePop ==
    m_frameCount = MaxCount \/ EndFramesPopped <= m_frameCount

\* C38, amended: with one producer, the frame counter is at least the
\* number of EndFrame markers popped once endFrame() has returned; while an
\* endFrame() is between its push and its m_frameCount++ the counter can
\* be short of the popped markers by that one frame, never by more.
C38_FrameCountedOnReturn ==
    \/ m_frameCount = MaxCount
    \/ EndFramesPopped <= m_frameCount + (IF endFramePending THEN 1 ELSE 0)

\* the consumer holds the marker of a frame that is not counted yet
C38_Witness ==
    /\ endFramePending
    /\ EndFramesPopped = m_frameCount + 1
    /\ lastGfx.op = "pop_all"

\* C40 as stated: total_pushed - total_popped equals the queue size after
\* any sequence of push, push_many, end_frame, pop_all and clear.
C40_CountersMatchSize ==
    m_totalPushed - m_totalPopped = Len(rq_m_queue)

\* C40, amended: total_pushed - total_popped equals the queue size as long
\* as clear() has removed no command; clear() drops commands without
\* counting them, so from then on the difference is larger than the size.
C40_CountersMatchUnlessCleared ==
    IF queueCleared
    THEN m_totalPushed - m_totalPopped > Len(rq_m_queue)
    ELSE m_totalPushed - m_totalPopped = Len(rq_m_queue)

\* commands were pushed, some popped, some dropped by clear(), some are
\* still queued
C40_Witness ==
    /\ queueCleared
    /\ m_totalPopped > 0
    /\ rq_m_queue # << >>

=============================================================================
